---- MODULE Spec2Model ----
(***************************************************************************)
(* Read-model / cache-invalidation engine of the Check-Update news feed:   *)
(* the Entity Store rows of blog/models.py, the cache entries written by   *)
(* the views of blog/views.py and blog/mixin.py, and the post_save /       *)
(* post_delete receivers of blog/signals.py.                               *)
(*                                                                         *)
(* Cache keys are sequences of the tokens the f-strings join with ':' and  *)
(* '=' ("news:latest:limit=None" is <<"news","latest","limit","None">>).   *)
(* Ids are UUIDs of one fixed length, so a glob "prefix*" matches a key    *)
(* exactly when the pattern's tokens are a prefix of the key's tokens.     *)
(***************************************************************************)
EXTENDS Integers, Sequences, FiniteSets, TLC

VARIABLES
    backend,    \* the configured django cache backend
    cache,      \* the cache: key -> payload, for the keys it holds
    news,       \* committed News rows
    bookmarks,  \* the News.bookmarks relation, as <<user, news id>> pairs
    cats,       \* committed Category rows
    subs,       \* committed SubCategory rows
    txn,        \* the open transaction.atomic() block of the writer, if any
    wseq,       \* number of entity writes issued so far
    ev,         \* what the last run of a signal receiver did
    rd,         \* the read request in flight between cache.get and cache.set
    lastResp,   \* the last response sent to a requester
    det,        \* NewsDetailView requests in flight
    edt,        \* the instance an editorial save has loaded
    reads,      \* detail reads answered with success, per News
    crt,        \* News creations between the slug check and the INSERT
    users,      \* committed core User rows
    prt,        \* committed PasswordResetToken rows
    req         \* account and bookmark requests between their read and their write

vars == <<backend, cache, news, bookmarks, cats, subs, txn, wseq, ev, rd,
          lastResp, det, edt, reads, crt, users, prt, req>>

----------------------------------------------------------------------------
(* Bounds of the model *)

MaxWrites == 2
MaxReads == 2

(* Program constants *)

DefaultLimit == 10

----------------------------------------------------------------------------
(* Identities *)

Users == {"u1", "u2"}
Anon == "anon"
Requesters == Users \cup {Anon}

NewsIds == {"n1", "n2"}
CatIds == {"c1", "c2"}
SubIds == {"s1", "s2"}

Backends == {"django_redis", "locmem"}

\* request.query_params.get('limit'): absent (f-string renders None) or "1"
LimitParams == {"None", "1"}
\* request.GET 'page' / 'page_size' as rendered into the key
PageParams == {"1", "2"}
SizeParams == {"10"}

----------------------------------------------------------------------------
(* Entity Store rows *)

\* A title is kept as what slugify() makes of it: the stem and its length in
\* characters.  A title of punctuation only slugifies to the empty string; a
\* title may be as long as max_length = 200 allows.
Titles ==
    {[stem |-> "fuel-price", len |-> 10],
     [stem |-> "long-headline", len |-> 199],
     [stem |-> "", len |-> 0]}

\* News.slug: SlugField(max_length=200, unique=True, blank=True)
SlugMaxLength == 200

\* slugify(self.title); a slug is a stem and the counter appended to it
\* (n = 0: no "-<counter>" suffix)
slugify(title) == [stem |-> title.stem, len |-> title.len, n |-> 0]

\* len(slug)
SlugLength(slug) ==
    slug.len + (IF slug.n = 0 THEN 0 ELSE IF slug.n < 10 THEN 2 ELSE 3)

\* News.content as its text without the markup, the length of that text and
\* whether markup surrounds it; News.excerpt as the text it was cut from, the
\* characters kept and whether "..." follows
NoContent == [text |-> "", len |-> 0, markup |-> FALSE]
NoExcerpt == [text |-> "", len |-> 0, dots |-> FALSE]

\* the rows of the lists and rankings carry a slug and neither content nor
\* media: News.save() derives nothing for them
NoRow ==
    [present |-> FALSE, rev |-> 0, views |-> 0, created |-> 0, parent |-> "-",
     media_type |-> "none", title |-> [stem |-> "-", len |-> 1],
     slug |-> [stem |-> "-", len |-> 1, n |-> 0], content |-> NoContent,
     excerpt |-> NoExcerpt, media |-> <<>>]

Row(rev, views, created, parent) ==
    [NoRow EXCEPT !.present = TRUE, !.rev = rev, !.views = views,
                  !.created = created, !.parent = parent]

Existing(table) == {i \in DOMAIN table : table[i].present}

\* core User rows, by email; tokens counts the verification tokens stored on
\* the row so far
Emails == {"e1", "e2", "e3"}
NoUser == [present |-> FALSE, tokens |-> 0, email_verified |-> FALSE, password |-> "-"]

\* PasswordResetToken rows, by token value
\* resets: how many ResetPasswordView requests have set a password with it
NoToken == [present |-> FALSE, user |-> "-", used |-> FALSE, expired |-> FALSE,
            resets |-> 0]

\* a request of the account views or of the bookmark view that has read the
\* database and has not written yet
NoRequest == [pc |-> "idle", user |-> "-", on |-> "-", arg |-> "-"]

----------------------------------------------------------------------------
(* Cache keys *)

NewsListKey(view, lim) == <<"news", view, "limit", lim>>
CategoriesAllKey == <<"categories", "all">>
CategoryKey(c) == <<"category", c>>
SubCategoryKey(s) == <<"subcategory", s>>
SubCategoryPageKey(s, page, size) == <<"subcategory_page", s, "page", page, "size", size>>

known_keys ==
    {<<"news", "latest">>, <<"news", "popular">>, <<"news", "all">>,
     <<"news", "featured">>}

\* response.data['data'] of a view: the serialized News rows, the serialized
\* Category / SubCategory rows (head), and the request.user the serializer saw
NoData == [rows |-> <<>>, head |-> {}, count |-> 0, viewer |-> "-"]

\* glob match of "prefix*"
Matches(key, prefix) ==
    /\ Len(key) >= Len(prefix)
    /\ SubSeq(key, 1, Len(prefix)) = prefix

NewsPattern == <<"news">>
SubCategoryPagePattern(s) == <<"subcategory_page", s>>

\* The cache maps the keys it holds to their payloads.
\* cache.set / cache.delete / cache.delete_many / cache.delete_pattern on a
\* backend that answers
CacheSet(c, key, data) ==
    [k \in DOMAIN c \cup {key} |-> IF k = key THEN data ELSE c[k]]

CacheDeleteMany(c, keys) ==
    [k \in DOMAIN c \ keys |-> c[k]]

CacheDeletePattern(c, prefix) ==
    [k \in {x \in DOMAIN c : ~Matches(x, prefix)} |-> c[k]]

----------------------------------------------------------------------------
(* blog/signals.py: the receivers.  A flag f says that the cache call it   *)
(* belongs to raises (backend unreachable or timed out); a call that       *)
(* raises leaves the cache as it was.                                      *)

NoDps == [ran |-> FALSE, prefix |-> <<>>, warned |-> FALSE, raised |-> FALSE,
          had |-> {}, left |-> {}]

\* the registry keys still cached once a "news:*" request has returned
RegistryLeft(c, prefix) ==
    IF prefix = NewsPattern THEN known_keys \cap DOMAIN c ELSE {}

\* what _delete_pattern_safe made of cache c0: the cache c it leaves, what it
\* logged, and the registry keys cached before (had) and after (left)
DpsResult(c0, c, prefix, warned, raised, calls, failed) ==
    [cache |-> c, warned |-> warned, raised |-> raised, calls |-> calls,
     failed |-> failed,
     dps |-> [ran |-> TRUE, prefix |-> prefix, warned |-> warned,
              raised |-> raised, had |-> RegistryLeft(c0, prefix),
              left |-> RegistryLeft(c, prefix)]]

\* Method 3 without its else branch: an unmapped prefix is dropped silently
delete_pattern_safe_silent(c, prefix, be, fail) ==
    IF be = "django_redis"
    THEN IF fail
         THEN DpsResult(c, c, prefix, TRUE, FALSE, 1, TRUE)
         ELSE DpsResult(c, CacheDeletePattern(c, prefix), prefix, FALSE, FALSE, 1, FALSE)
    ELSE DpsResult(c, c, prefix, FALSE, FALSE, 0, FALSE)

\* _delete_pattern_safe(pattern)
delete_pattern_safe(c, prefix, be, fail) ==
    IF be = "django_redis"
    THEN \* Method 1: hasattr(cache, "delete_pattern")
         IF fail
         THEN DpsResult(c, c, prefix, TRUE, FALSE, 1, TRUE)            \* line 58-59
         ELSE DpsResult(c, CacheDeletePattern(c, prefix), prefix, FALSE, FALSE, 1, FALSE)
    ELSE \* Method 2 ends in ImportError or a logged exception; Method 3:
         IF prefix = NewsPattern
         THEN IF fail
              THEN DpsResult(c, c, prefix, TRUE, FALSE, 1, TRUE)       \* line 58-59
              ELSE DpsResult(c, CacheDeleteMany(c, known_keys), prefix, FALSE, FALSE, 1, FALSE)
         ELSE DpsResult(c, c, prefix, TRUE, FALSE, 0, FALSE)           \* line 54-56

\* the try/except of lines 65 and 76 removed
invalidate_news_cache_unguarded(c, be, f1, f2) ==
    LET r1 == delete_pattern_safe(c, NewsPattern, be, f1)
    IN  IF f2
        THEN [r1 EXCEPT !.raised = TRUE, !.calls = r1.calls + 1, !.failed = TRUE]
        ELSE [r1 EXCEPT !.cache = CacheDeleteMany(r1.cache, known_keys),
                        !.calls = r1.calls + 1]

\* the receiver clearing the whole cache in place of the "news:" prefix
invalidate_news_cache_clearing(c, be, f1, f2) ==
    LET r1 == delete_pattern_safe(c, NewsPattern, be, f1)
    IN  [r1 EXCEPT !.cache = <<>>, !.calls = r1.calls + 1]

\* invalidate_news_cache(sender, instance)
invalidate_news_cache(c, be, f1, f2) ==
    LET r1 == delete_pattern_safe(c, NewsPattern, be, f1)
    IN  IF r1.raised
        THEN [r1 EXCEPT !.warned = TRUE, !.raised = FALSE]           \* line 76-77
        ELSE IF f2
             THEN [r1 EXCEPT !.warned = TRUE, !.calls = r1.calls + 1,
                             !.failed = TRUE]                        \* line 76-77
             ELSE [r1 EXCEPT !.cache = CacheDeleteMany(r1.cache, known_keys),
                             !.calls = r1.calls + 1]

\* eviction by the prefix "category:" in place of the instance's key
invalidate_category_cache_prefix(c, id, f1, f2) ==
    IF f1 \/ f2
    THEN [cache |-> c, warned |-> TRUE, raised |-> FALSE, calls |-> 1,
          failed |-> TRUE, dps |-> NoDps]
    ELSE [cache |-> CacheDeletePattern(CacheDeleteMany(c, {CategoriesAllKey}),
                                       <<"category">>),
          warned |-> FALSE, raised |-> FALSE, calls |-> 2, failed |-> FALSE,
          dps |-> NoDps]

\* invalidate_category_cache(sender, instance)
invalidate_category_cache(c, id, f1, f2) ==
    IF f1
    THEN [cache |-> c, warned |-> TRUE, raised |-> FALSE, calls |-> 1,
          failed |-> TRUE, dps |-> NoDps]
    ELSE IF f2
         THEN [cache |-> CacheDeleteMany(c, {CategoriesAllKey}), warned |-> TRUE,
               raised |-> FALSE, calls |-> 2, failed |-> TRUE, dps |-> NoDps]
         ELSE [cache |-> CacheDeleteMany(c, {CategoriesAllKey, CategoryKey(id)}),
               warned |-> FALSE, raised |-> FALSE, calls |-> 2, failed |-> FALSE,
               dps |-> NoDps]

\* invalidate_subcategory_cache(sender, instance)
invalidate_subcategory_cache(c, id, be, f1, f2) ==
    IF f1
    THEN [cache |-> c, warned |-> TRUE, raised |-> FALSE, calls |-> 1,
          failed |-> TRUE, dps |-> NoDps]
    ELSE LET c1 == CacheDeleteMany(c, {SubCategoryKey(id)})
             r == delete_pattern_safe(c1, SubCategoryPagePattern(id), be, f2)
         IN  IF r.raised
             THEN [r EXCEPT !.warned = TRUE, !.raised = FALSE, !.calls = r.calls + 1]
             ELSE [r EXCEPT !.calls = r.calls + 1]

NoEvent ==
    [kind |-> "-", id |-> "-", warned |-> FALSE, raised |-> FALSE, calls |-> 0,
     failed |-> FALSE, evicted |-> {}, dps |-> NoDps]

\* the receiver of `kind` has run for instance `id` on cache c0 with result r
Event(kind, id, r, c0) ==
    [kind |-> kind, id |-> id, warned |-> r.warned, raised |-> r.raised,
     calls |-> r.calls, failed |-> r.failed,
     evicted |-> DOMAIN c0 \ DOMAIN r.cache, dps |-> r.dps]

----------------------------------------------------------------------------
(* blog/managers.py, blog/serializers.py, blog/views.py: what a miss computes *)

Min(a, b) == IF a <= b THEN a ELSE b

\* queryset[:n]
Take(q, n) == SubSeq(q, 1, Min(n, Len(q)))

\* order_by('-created') over a set of ids
RECURSIVE OrderByCreatedDesc(_, _)
OrderByCreatedDesc(table, ids) ==
    IF ids = {}
    THEN <<>>
    ELSE LET m == CHOOSE x \in ids : \A y \in ids : table[x].created >= table[y].created
         IN  <<m>> \o OrderByCreatedDesc(table, ids \ {m})

\* NewsManager.get_latest(limit=10): qs[:limit] if limit else qs
get_latest(table, limit) ==
    LET qs == OrderByCreatedDesc(table, Existing(table))
    IN  IF limit # 0 THEN Take(qs, limit) ELSE qs

\* int(request.query_params.get('limit', default_limit))
LimitVal(lim, default_limit) ==
    CASE lim = "None" -> default_limit
      [] lim = "0" -> 0
      [] lim = "1" -> 1
      [] lim = "2" -> 2
      [] lim = "10" -> 10
      [] OTHER -> default_limit

\* NewsSerializer.get_is_bookmarked(obj) under context {'request': request}
get_is_bookmarked(user, id, bm) ==
    IF user \in Users THEN <<user, id>> \in bm ELSE FALSE

NewsSerializer(table, q, user, bm) ==
    [i \in 1..Len(q) |->
        [id |-> q[i], rev |-> table[q[i]].rev, views |-> table[q[i]].views,
         is_bookmarked |-> get_is_bookmarked(user, q[i], bm)]]

\* BaseAPIView.limited_queryset_and_respond: response.data['data']
limited_queryset_and_respond(table, q, lim, user, bm) ==
    [rows |-> NewsSerializer(table, Take(q, LimitVal(lim, DefaultLimit)), user, bm),
     head |-> {},
     count |-> Len(q),
     viewer |-> user]

----------------------------------------------------------------------------
(* Requests and responses *)

Idle == [pc |-> "idle", view |-> "-", key |-> <<>>, user |-> "-", data |-> NoData]

NoResp ==
    [view |-> "-", user |-> "-", status |-> "none", code |-> 0, viewer |-> "-",
     hit |-> FALSE, cacheErr |-> FALSE, views |-> 0]

\* BaseAPIView.success_response(data); of the payload the response keeps whose
\* is_bookmarked flags it carries and, for a detail read, the views it shows
success_response(view, user, data, hit) ==
    [view |-> view, user |-> user, status |-> "success", code |-> 200,
     viewer |-> data.viewer, hit |-> hit, cacheErr |-> FALSE, views |-> 0]

\* BaseAPIView.error_response(message), or the 500 of an unhandled exception
error_response(view, user, code, cacheErr) ==
    [view |-> view, user |-> user, status |-> "error", code |-> code,
     viewer |-> "-", hit |-> FALSE, cacheErr |-> cacheErr, views |-> 0]

\* a model instance a request or an editor holds in memory
NoInstance == [pc |-> "idle", id |-> "-", inst |-> NoRow]
Loaded(id, row) == [pc |-> "loaded", id |-> id, inst |-> row]

\* requests NewsDetailView can serve at once
DetSlots == {"d1", "d2"}

NoTxn == [open |-> FALSE, id |-> "-", row |-> NoRow]

\* rows of News.bookmarks go with the News row (ManyToManyField)
BookmarksOf(bm, table) == {b \in bm : table[b[2]].present}

----------------------------------------------------------------------------
(* News.save(): what it derives before super().save() *)

\* the while loop of lines 97-101:
\* while News.objects.filter(slug=self.slug).exclude(id=self.id).exists()
RECURSIVE SlugLoop(_, _, _, _, _)
SlugLoop(table, id, base, counter, slug) ==
    IF \E i \in Existing(table) \ {id} : table[i].slug = slug
    THEN \* self.slug = f"{base_slug}-{counter}"; counter += 1
         SlugLoop(table, id, base, counter + 1, [base EXCEPT !.n = counter])
    ELSE slug

\* clean_content[:150] + "..." if len(clean_content) > 150 else clean_content
ExcerptLimit == 150

auto_excerpt_undotted(content) ==
    [text |-> content.text,
     len |-> IF content.len > ExcerptLimit THEN ExcerptLimit ELSE content.len,
     dots |-> FALSE]

\* lines 105-112: the text nodes of the content, cut at 150 characters
auto_excerpt(content) ==
    IF content.len > ExcerptLimit
    THEN [text |-> content.text, len |-> ExcerptLimit, dots |-> TRUE]
    ELSE [text |-> content.text, len |-> content.len, dots |-> FALSE]

detect_media_type_trusting(inst) == inst

\* lines 114-124; a media name is the sequence of its "."-separated parts
detect_media_type(inst) ==
    IF inst.media = <<>>
    THEN inst
    ELSE LET last == inst.media[Len(inst.media)]
             \* self.media.name.lower().split(".")[-1] if "." in the name
             ext == IF Len(inst.media) = 1 THEN ""
                    ELSE CASE last = "JPG" -> "jpg" [] last = "MP4" -> "mp4"
                           [] OTHER -> last
         IN  [inst EXCEPT !.media_type =
                  IF ext \in {"jpg", "jpeg", "png", "gif", "webp"} THEN "image"
                  ELSE IF ext \in {"mp4", "webm", "avi", "mov"} THEN "video"
                  ELSE "none"]

News_save_reslugging(table, id, inst) ==
    detect_media_type(
        [inst EXCEPT !.slug = SlugLoop(table, id, slugify(inst.title), 1,
                                       slugify(inst.title))])

News_save_rederiving(table, id, inst) ==
    detect_media_type(
        IF inst.content # NoContent
        THEN [inst EXCEPT !.excerpt = auto_excerpt(inst.content)]
        ELSE inst)

\* lines 93-124, on the instance being saved; what super().save() then writes
News_save(table, id, inst) ==
    LET base_slug == slugify(inst.title)
        slugged == IF SlugLength(inst.slug) = 0
                   THEN [inst EXCEPT !.slug = SlugLoop(table, id, base_slug, 1, base_slug)]
                   ELSE inst
        excerpted == IF slugged.excerpt = NoExcerpt /\ slugged.content # NoContent
                     THEN [slugged EXCEPT !.excerpt = auto_excerpt(slugged.content)]
                     ELSE slugged
    IN  detect_media_type(excerpted)

\* News(title=..., content=..., media=..., media_type=...): slug and excerpt
\* not supplied
Draft(title, content, media, media_type) ==
    [Row(0, 0, 0, "s1") EXCEPT !.title = title, !.slug = slugify([stem |-> "", len |-> 0]),
                               !.content = content, !.media = media,
                               !.media_type = media_type]

UniqueViolation_off(table, inst) == FALSE

\* slug is unique=True: the INSERT of a slug another row holds raises
\* IntegrityError
UniqueViolation(table, inst) ==
    \E i \in Existing(table) : table[i].slug = inst.slug

----------------------------------------------------------------------------
(* Initial state: one Category, one SubCategory and one News exist *)

Init ==
    /\ backend \in Backends
    /\ cache = <<>>
    /\ news = [i \in NewsIds |-> IF i = "n1" THEN Row(0, 0, 0, "s1") ELSE NoRow]
    /\ bookmarks = {}
    /\ cats = [i \in CatIds |-> IF i = "c1" THEN Row(0, 0, 0, "-") ELSE NoRow]
    /\ subs = [i \in SubIds |-> IF i = "s1" THEN Row(0, 0, 0, "c1") ELSE NoRow]
    /\ txn = NoTxn
    /\ wseq = 0
    /\ ev = NoEvent
    /\ rd = Idle
    /\ lastResp = NoResp
    /\ det = [s \in DetSlots |-> NoInstance]
    /\ edt = NoInstance
    /\ reads = [i \in NewsIds |-> 0]
    /\ crt = [s \in DetSlots |-> NoInstance]
    /\ users = [e \in Emails |-> NoUser]
    /\ prt = [t \in {"t1", "t2"} |-> NoToken]
    /\ req = [s \in DetSlots |-> NoRequest]

----------------------------------------------------------------------------
(* News writes: News.save() / delete(), with the receiver run inside save() *)

\* the row News.save() / delete() leaves, for the instance the writer holds
NewsWrite(op, id, seq, table) ==
    CASE op = "create" -> Row(0, 0, seq, CHOOSE x \in Existing(subs) : TRUE)
      [] op = "update" -> [table[id] EXCEPT !.rev = @ + 1]
      [] op = "delete" -> NoRow

\* mode "autocommit": News.save() on a connection in autocommit;
\* mode "atomic": `with transaction.atomic(): news.save()`, committed at block exit
NewsSave(op, id, mode, f1, f2) ==
    /\ ~txn.open
    /\ wseq < MaxWrites
    /\ IF op = "create"
       THEN ~news[id].present /\ Existing(subs) # {}
       ELSE news[id].present
    /\ LET seq == wseq + 1
           row == NewsWrite(op, id, seq, news)
           r == invalidate_news_cache(cache, backend, f1, f2)
           table == [news EXCEPT ![id] = row]
       IN  /\ wseq' = seq
           /\ cache' = r.cache
           /\ ev' = Event("news", "-", r, cache)
           /\ IF mode = "atomic"
              THEN /\ txn' = IF r.raised THEN NoTxn ELSE [open |-> TRUE, id |-> id, row |-> row]
                   /\ UNCHANGED <<news, bookmarks>>
              ELSE /\ news' = table
                   /\ bookmarks' = BookmarksOf(bookmarks, table)
                   /\ UNCHANGED txn
    /\ UNCHANGED <<backend, crt, users, prt, req, cats, subs, rd, lastResp, det, edt, reads>>

\* exit of the transaction.atomic() block
NewsCommit ==
    /\ txn.open
    /\ LET table == [news EXCEPT ![txn.id] = txn.row]
       IN  /\ news' = table
           /\ bookmarks' = BookmarksOf(bookmarks, table)
    /\ txn' = NoTxn
    /\ UNCHANGED <<backend, crt, users, prt, req, cache, cats, subs, wseq, ev, rd, lastResp, det, edt, reads>>

----------------------------------------------------------------------------
(* Cached list views *)

\* LatestNewsView.get up to the miss: lines 131-146
LatestNewsView_get(user, lim, fg) ==
    /\ rd.pc = "idle"
    /\ LET key == NewsListKey("latest", lim)
           queryset == get_latest(news, DefaultLimit)
       IN  IF fg
           THEN \* cache.get raises; nothing catches it
                /\ lastResp' = error_response("latest", user, 500, TRUE)
                /\ UNCHANGED rd
           ELSE IF key \in DOMAIN cache
                THEN /\ lastResp' = success_response("latest", user, cache[key], TRUE)
                     /\ UNCHANGED rd
                ELSE /\ rd' = [pc |-> "miss", view |-> "latest", key |-> key, user |-> user,
                               data |-> limited_queryset_and_respond(news, queryset, lim,
                                                                     user, bookmarks)]
                     /\ UNCHANGED lastResp
    /\ UNCHANGED <<backend, crt, users, prt, req, cache, news, bookmarks, cats, subs, txn, wseq, ev, det, edt, reads>>

\* CachedNewsMixin.get_cached_news up to the miss: lines 11-18
get_cached_news(key, user, limit, fg) ==
    /\ rd.pc = "idle"
    /\ IF fg
       THEN \* line 21-23
            /\ lastResp' = error_response("mixin", user, 400, TRUE)
            /\ UNCHANGED rd
       ELSE IF key \in DOMAIN cache
            THEN /\ lastResp' = success_response("mixin", user, cache[key], TRUE)
                 /\ UNCHANGED rd
            ELSE /\ rd' = [pc |-> "miss", view |-> "mixin", key |-> key, user |-> user,
                           data |-> LET q == get_latest(news, limit)
                                    IN  [rows |-> NewsSerializer(news, q, user, bookmarks),
                                         head |-> {}, count |-> Len(q),
                                         viewer |-> user]]
                 /\ UNCHANGED lastResp
    /\ UNCHANGED <<backend, crt, users, prt, req, cache, news, bookmarks, cats, subs, txn, wseq, ev, det, edt, reads>>

\* what the view answers when its cache.set raises
SetFailureCode(view) ==
    CASE view = "latest" -> 500              \* no handler: views.py 149
      [] view = "mixin" -> 400               \* mixin.py 21-23
      [] view = "categories" -> 400          \* views.py 269-271
      [] view = "category" -> 400            \* views.py 287-289
      [] view = "subcategory" -> 400         \* views.py 305-307
      [] view = "subcategory_page" -> 500    \* views.py 443-447
      [] OTHER -> 500

\* cache.set(cache_key, data, timeout=CACHE_TTL) and the response after it
CacheSetAndRespond(fs) ==
    /\ rd.pc = "miss"
    /\ IF fs
       THEN /\ lastResp' = error_response(rd.view, rd.user, SetFailureCode(rd.view), TRUE)
            /\ UNCHANGED cache
       ELSE /\ cache' = CacheSet(cache, rd.key, rd.data)
            /\ lastResp' = success_response(rd.view, rd.user, rd.data, FALSE)
    /\ rd' = Idle
    /\ UNCHANGED <<backend, crt, users, prt, req, news, bookmarks, cats, subs, txn, wseq, ev, det, edt, reads>>

\* an entry that is never dropped: the timeout restarted by every cache.get
Expired_never(c, key) == c

\* cache.set(key, data, timeout=CACHE_TTL): the cache without the entry, once
\* CACHE_TTL has passed since the set
Expired(c, key) == CacheDeleteMany(c, {key})

\* the timeout of the entry under `key` runs out
CacheExpire(key) ==
    /\ key \in DOMAIN cache
    /\ cache' = Expired(cache, key)
    /\ UNCHANGED <<backend, crt, users, prt, req, news, bookmarks, cats, subs, txn, wseq, ev, rd, lastResp,
                   det, edt, reads>>

----------------------------------------------------------------------------
(* The news feed: writes, their invalidation, and the cached latest view *)

Next ==
    \/ \E op \in {"create", "update", "delete"}, id \in NewsIds,
          mode \in {"autocommit", "atomic"}, f1 \in BOOLEAN, f2 \in BOOLEAN :
          NewsSave(op, id, mode, f1, f2)
    \/ NewsCommit
    \/ \E lim \in LimitParams :
          LatestNewsView_get(Anon, lim, FALSE)
    \/ CacheSetAndRespond(FALSE)
    \/ \E lim \in LimitParams : CacheExpire(NewsListKey("latest", lim))

Spec == Init /\ [][Next]_vars

\* time passes: the timeout of an entry that stays cached runs out
FairSpec ==
    Spec /\ \A lim \in LimitParams : WF_vars(CacheExpire(NewsListKey("latest", lim)))

----------------------------------------------------------------------------
(* Category and SubCategory writes.  on_delete=CASCADE takes the rows that  *)
(* hang under a deleted row with it, and post_delete reaches the receiver   *)
(* of each of them; the cascaded receivers see the cache flags g1, g2.      *)

\* invalidate_news_cache once per deleted News row
RECURSIVE CascadeNews(_, _, _, _, _)
CascadeNews(c, n, be, g1, g2) ==
    IF n = 0 THEN c
    ELSE CascadeNews(invalidate_news_cache(c, be, g1, g2).cache, n - 1, be, g1, g2)

\* invalidate_subcategory_cache once per deleted SubCategory row
RECURSIVE CascadeSubs(_, _, _, _, _)
CascadeSubs(c, ids, be, g1, g2) ==
    IF ids = {} THEN c
    ELSE LET s == CHOOSE x \in ids : TRUE
         IN  CascadeSubs(invalidate_subcategory_cache(c, s, be, g1, g2).cache,
                         ids \ {s}, be, g1, g2)

SubsOf(c) == {s \in Existing(subs) : subs[s].parent = c}
NewsOf(ss) == {n \in Existing(news) : news[n].parent \in ss}

Drop(table, ids) == [i \in DOMAIN table |-> IF i \in ids THEN NoRow ELSE table[i]]

\* Category.save(): create or update, then post_save
CategorySave(op, id, f1, f2) ==
    /\ ~txn.open
    /\ wseq < MaxWrites
    /\ IF op = "create" THEN ~cats[id].present ELSE cats[id].present
    /\ LET seq == wseq + 1
           row == IF op = "create" THEN Row(0, 0, seq, "-")
                  ELSE [cats[id] EXCEPT !.rev = @ + 1]
           r == invalidate_category_cache(cache, id, f1, f2)
       IN  /\ wseq' = seq
           /\ cats' = [cats EXCEPT ![id] = row]
           /\ cache' = r.cache
           /\ ev' = Event("category", id, r, cache)
    /\ UNCHANGED <<backend, crt, users, prt, req, news, bookmarks, subs, txn, rd, lastResp, det, edt, reads>>

\* Category.delete(): the rows under it go first, then post_delete of the Category
CategoryDelete(id, f1, f2, g1, g2) ==
    /\ ~txn.open
    /\ wseq < MaxWrites
    /\ cats[id].present
    /\ LET ss == SubsOf(id)
           ns == NewsOf(ss)
           c1 == CascadeNews(cache, Cardinality(ns), backend, g1, g2)
           c2 == CascadeSubs(c1, ss, backend, g1, g2)
           r == invalidate_category_cache(c2, id, f1, f2)
           table == Drop(news, ns)
       IN  /\ wseq' = wseq + 1
           /\ cats' = [cats EXCEPT ![id] = NoRow]
           /\ subs' = Drop(subs, ss)
           /\ news' = table
           /\ bookmarks' = BookmarksOf(bookmarks, table)
           /\ cache' = r.cache
           /\ ev' = Event("category", id, r, cache)
    /\ UNCHANGED <<backend, crt, users, prt, req, txn, rd, lastResp, det, edt, reads>>

\* SubCategory.save(): create or update, then post_save
SubCategorySave(op, id, parent, f1, f2) ==
    /\ ~txn.open
    /\ wseq < MaxWrites
    /\ cats[parent].present
    /\ IF op = "create" THEN ~subs[id].present
       ELSE subs[id].present /\ subs[id].parent = parent
    /\ LET seq == wseq + 1
           row == IF op = "create" THEN Row(0, 0, seq, parent)
                  ELSE [subs[id] EXCEPT !.rev = @ + 1]
           r == invalidate_subcategory_cache(cache, id, backend, f1, f2)
       IN  /\ wseq' = seq
           /\ subs' = [subs EXCEPT ![id] = row]
           /\ cache' = r.cache
           /\ ev' = Event("subcategory", id, r, cache)
    /\ UNCHANGED <<backend, crt, users, prt, req, news, bookmarks, cats, txn, rd, lastResp, det, edt, reads>>

\* SubCategory.delete(): its News go first, then post_delete of the SubCategory
SubCategoryDelete(id, f1, f2, g1, g2) ==
    /\ ~txn.open
    /\ wseq < MaxWrites
    /\ subs[id].present
    /\ LET ns == NewsOf({id})
           c1 == CascadeNews(cache, Cardinality(ns), backend, g1, g2)
           r == invalidate_subcategory_cache(c1, id, backend, f1, f2)
           table == Drop(news, ns)
       IN  /\ wseq' = wseq + 1
           /\ subs' = [subs EXCEPT ![id] = NoRow]
           /\ news' = table
           /\ bookmarks' = BookmarksOf(bookmarks, table)
           /\ cache' = r.cache
           /\ ev' = Event("subcategory", id, r, cache)
    /\ UNCHANGED <<backend, crt, users, prt, req, cats, txn, rd, lastResp, det, edt, reads>>

----------------------------------------------------------------------------
(* Every write path with its receiver, and the one view that caches under  *)
(* a key of the receivers' registry                                        *)

NextWrites ==
    \/ \E op \in {"create", "update", "delete"}, id \in NewsIds,
          mode \in {"autocommit", "atomic"}, f1 \in BOOLEAN, f2 \in BOOLEAN :
          NewsSave(op, id, mode, f1, f2)
    \/ NewsCommit
    \/ \E op \in {"create", "update"}, id \in CatIds, f1 \in BOOLEAN, f2 \in BOOLEAN :
          CategorySave(op, id, f1, f2)
    \/ \E id \in CatIds, f1 \in BOOLEAN, f2 \in BOOLEAN, g1 \in BOOLEAN, g2 \in BOOLEAN :
          CategoryDelete(id, f1, f2, g1, g2)
    \/ \E op \in {"create", "update"}, id \in SubIds, parent \in CatIds,
          f1 \in BOOLEAN, f2 \in BOOLEAN :
          SubCategorySave(op, id, parent, f1, f2)
    \/ \E id \in SubIds, f1 \in BOOLEAN, f2 \in BOOLEAN, g1 \in BOOLEAN, g2 \in BOOLEAN :
          SubCategoryDelete(id, f1, f2, g1, g2)
    \/ get_cached_news(<<"news", "latest">>, Anon, DefaultLimit, FALSE)
    \/ CacheSetAndRespond(FALSE)

SpecWrites == Init /\ [][NextWrites]_vars

----------------------------------------------------------------------------
(* Claims about the invalidation protocol *)

\* a step that issued an entity write (and ran its receiver)
WriteStep == wseq' # wseq

(* C1: when a News create, update or delete and its receiver have run and  *)
(* no cache call raised, every cache entry under "news:" that was cached   *)
(* before the write is gone, whatever the backend.                         *)
C1_NewsEntriesEvicted ==
    [][(WriteStep /\ ev'.kind = "news" /\ ~ev'.failed)
        => \A k \in DOMAIN cache : Matches(k, NewsPattern) => k \notin DOMAIN cache']_vars

\* cache calls the receiver of `kind` issues when none of them raises
EvictionCalls(kind, be) == IF kind = "subcategory" /\ be = "locmem" THEN 1 ELSE 2

\* the write the step issued is in the store, or in the writer's open transaction
WriteStands ==
    \/ txn'.open
    \/ news' # news
    \/ cats' # cats
    \/ subs' # subs

(* C5: a cache call that raises during eviction is logged and swallowed by *)
(* the receiver: the receiver does not raise to the writer, the write      *)
(* stands, and the receiver issues no more cache calls than it does when   *)
(* nothing fails (no retry).                                               *)
C5_EvictionFailureSwallowed ==
    [][WriteStep
        => /\ ~ev'.raised
           /\ WriteStands
           /\ ev'.failed => ev'.warned
           /\ ev'.calls <= EvictionCalls(ev'.kind, backend)]_vars

C5_Witness ==
    /\ ev.failed
    /\ ev.warned
    /\ ~ev.raised
    /\ wseq > 0

(* C7: on a backend without pattern deletion a prefix delete is never a    *)
(* silent no-op: for "news:*" the registry keys are evicted (or the failed *)
(* delete_many is logged), for any other prefix a warning is logged, and   *)
(* it never raises.                                                        *)
C7_PrefixDeleteNeverSilent ==
    (backend = "locmem" /\ ev.dps.ran)
        => /\ ~ev.dps.raised
           /\ ev.dps.prefix = NewsPattern => (ev.dps.left = {} \/ ev.dps.warned)
           /\ ev.dps.prefix # NewsPattern => ev.dps.warned

C7_Witness ==
    /\ backend = "locmem"
    /\ ev.dps.ran
    /\ ev.dps.prefix = NewsPattern
    /\ ev.dps.had # {}
    /\ ev.dps.left = {}
    /\ ~ev.dps.warned

(* C8: the eviction of a News write never runs while that write is still   *)
(* uncommitted.                                                            *)
C8_EvictionAfterCommit ==
    ~(txn.open /\ ev.kind = "news" /\ ev.calls > 0)

----------------------------------------------------------------------------
(* The view-increment path and the editorial save *)

InFlight(id) == Cardinality({s \in DetSlots : det[s].pc = "loaded" /\ det[s].id = id})

\* NewsDetailView.get, line 121: get_object_or_404(News, id=news_id)
DetailLoad(s, id, user) ==
    /\ det[s].pc = "idle"
    /\ reads[id] + InFlight(id) < MaxReads
    /\ IF news[id].present
       THEN /\ det' = [det EXCEPT ![s] = Loaded(id, news[id])]
            /\ UNCHANGED lastResp
       ELSE \* Http404 is an Exception: lines 125-127
            /\ lastResp' = error_response("detail", user, 400, FALSE)
            /\ UNCHANGED det
    /\ UNCHANGED <<backend, crt, users, prt, req, cache, news, bookmarks, cats, subs, txn, wseq, ev, rd, edt, reads>>

\* the counter left as it was loaded
increment_views_skipped(inst) == inst

\* News.increment_views(): self.views += 1; self.save(update_fields=["views"])
increment_views(inst) == [inst EXCEPT !.views = @ + 1]

\* the row after `UPDATE ... SET views = <instance value>` for the instance
SaveViewsOnly(row, inst) == [row EXCEPT !.views = inst.views]

\* NewsDetailView.get, lines 122-127
DetailSave(s, user, f1, f2) ==
    /\ det[s].pc = "loaded"
    /\ LET id == det[s].id
           inst == increment_views(det[s].inst)
           r == invalidate_news_cache(cache, backend, f1, f2)
       IN  IF news[id].present
           THEN /\ news' = [news EXCEPT ![id] = SaveViewsOnly(news[id], inst)]
                /\ wseq' = wseq + 1
                /\ cache' = r.cache
                /\ ev' = Event("news", "-", r, cache)
                /\ reads' = [reads EXCEPT ![id] = @ + 1]
                /\ lastResp' =
                      LET data == [rows |-> NewsSerializer([news EXCEPT ![id] = inst],
                                                           <<id>>, user, bookmarks),
                                   head |-> {}, count |-> 1, viewer |-> user]
                      IN  [success_response("detail", user, data, FALSE)
                              EXCEPT !.views = data.rows[1].views]
           ELSE \* the UPDATE affects no row: DatabaseError, lines 125-127
                /\ lastResp' = error_response("detail", user, 400, FALSE)
                /\ UNCHANGED <<news, wseq, cache, ev, reads>>
    /\ det' = [det EXCEPT ![s] = NoInstance]
    /\ UNCHANGED <<backend, crt, users, prt, req, bookmarks, cats, subs, txn, rd, edt>>

\* the admin change view loads the instance it will save
EditorLoad(id) ==
    /\ edt.pc = "idle"
    /\ wseq < MaxWrites + MaxReads
    /\ news[id].present
    /\ edt' = Loaded(id, news[id])
    /\ UNCHANGED <<backend, crt, users, prt, req, cache, news, bookmarks, cats, subs, txn, wseq, ev, rd,
                   lastResp, det, reads>>

\* News.save() with no update_fields: every column is written from the instance
SaveAllFields(inst) == [inst EXCEPT !.rev = @ + 1]

\* strict: the database enforces varchar(200) on the slug column (PostgreSQL
\* raises DataError, SQLite stores the longer value)
EditorSave(f1, f2, strict) ==
    /\ edt.pc = "loaded"
    /\ LET r == invalidate_news_cache(cache, backend, f1, f2)
           inst == News_save(news, edt.id, edt.inst)
       IN  IF strict /\ SlugLength(inst.slug) > SlugMaxLength
           THEN UNCHANGED <<news, wseq, cache, ev>>
           ELSE /\ news' = [news EXCEPT ![edt.id] = SaveAllFields(inst)]
                /\ wseq' = wseq + 1
                /\ cache' = r.cache
                /\ ev' = Event("news", "-", r, cache)
    /\ edt' = NoInstance
    /\ UNCHANGED <<backend, crt, users, prt, req, bookmarks, cats, subs, txn, rd, lastResp, det, reads>>

NextViews ==
    \/ \E s \in DetSlots, id \in NewsIds : DetailLoad(s, id, Anon)
    \/ \E s \in DetSlots, f1 \in BOOLEAN, f2 \in BOOLEAN : DetailSave(s, Anon, f1, f2)
    \/ \E id \in NewsIds : EditorLoad(id)
    \/ \E f1 \in BOOLEAN, f2 \in BOOLEAN : EditorSave(f1, f2, TRUE)

SpecViews == Init /\ [][NextViews]_vars

(* C2: concurrent view-increments lose no update: when the detail reads of *)
(* a News have all been answered with success and nothing else wrote the   *)
(* row, its views counter is higher by the number of those reads.          *)
C2_NoLostIncrement ==
    \A id \in NewsIds :
        (news[id].present /\ news[id].rev = 0 /\ InFlight(id) = 0 /\ edt.pc = "idle")
            => news[id].views = reads[id]

(* C3: the stored views counter of a News never decreases.                 *)
C3_ViewsNeverDecrease ==
    [][\A id \in NewsIds :
          (news[id].present /\ news'[id].present) => news'[id].views >= news[id].views]_vars

(* C33: a successful detail read of an existing News, run in isolation,  *)
(* raises the stored views of that News by exactly 1, persists no other    *)
(* field of it and changes no other News, shows the post-increment count   *)
(* in its response, is not served from the cache, and runs the news        *)
(* invalidation once.                                                      *)
C33_DetailReadFrame ==
    [][\A s \in DetSlots :
          ( /\ det[s].pc = "loaded"
            /\ det'[s].pc = "idle"
            /\ det[s].inst = news[det[s].id]
            /\ \A x \in DetSlots \ {s} : det[x].pc = "idle"
            /\ edt.pc = "idle"
            /\ lastResp'.status = "success" )
          => LET id == det[s].id
             IN  /\ news'[id] = [news[id] EXCEPT !.views = @ + 1]
                 /\ \A o \in NewsIds \ {id} : news'[o] = news[o]
                 /\ lastResp'.view = "detail"
                 /\ lastResp'.views = news'[id].views
                 /\ ~lastResp'.hit
                 /\ wseq' = wseq + 1
                 /\ ev'.kind = "news"
                 /\ ev'.dps.ran /\ ev'.dps.prefix = NewsPattern]_vars

\* the second detail read of n1 has been answered
C33_Witness ==
    /\ lastResp.view = "detail"
    /\ lastResp.status = "success"
    /\ lastResp.views = 2
    /\ news["n1"].views = 2
    /\ news["n1"].rev = 0

----------------------------------------------------------------------------
(* Catalogue views and the bookmark toggle: blog/views.py 226-307, 339-447  *)

\* SubCategorySerializer(subcategory).data
SubCategorySerializer(s) ==
    [id |-> s, rev |-> subs[s].rev, category |-> subs[s].parent, subcategories |-> {}]

\* CategorySerializer(category).data, with its nested subcategories
CategorySerializer(c) ==
    [id |-> c, rev |-> cats[c].rev, category |-> "-",
     subcategories |-> {SubCategorySerializer(s) : s \in SubsOf(c)}]

\* int(page), int(page_size)
IntOf(p) ==
    CASE p = "0" -> 0
      [] p = "1" -> 1
      [] p = "2" -> 2
      [] p = "10" -> 10

\* SubCategoryPageView.get, lines 359-438: the "latest_news" section sliced to
\* the page, the count, and the serialized subcategory
SubCategoryPageData(s, page, size, user) ==
    LET q == OrderByCreatedDesc(news, NewsOf({s}))
        start_index == (IntOf(page) - 1) * IntOf(size)
        end_index == start_index + IntOf(size)
        sliced == SubSeq(q, start_index + 1, Min(end_index, Len(q)))
    IN  [rows |-> NewsSerializer(news, sliced, user, bookmarks),
         head |-> {SubCategorySerializer(s)},
         count |-> Len(q),
         viewer |-> user]

\* the body the catalogue views share: cache.get, the hit, get_object_or_404,
\* and the payload held until cache.set.  failCode answers a cache.get that
\* raises, missingCode a row that does not exist.
CachedRead(view, key, user, found, data, fg, failCode, missingCode) ==
    /\ rd.pc = "idle"
    /\ IF fg
       THEN /\ lastResp' = error_response(view, user, failCode, TRUE)
            /\ UNCHANGED rd
       ELSE IF key \in DOMAIN cache
            THEN /\ lastResp' = success_response(view, user, cache[key], TRUE)
                 /\ UNCHANGED rd
            ELSE IF ~found
                 THEN /\ lastResp' = error_response(view, user, missingCode, FALSE)
                      /\ UNCHANGED rd
                 ELSE /\ rd' = [pc |-> "miss", view |-> view, key |-> key,
                                user |-> user, data |-> data]
                      /\ UNCHANGED lastResp
    /\ UNCHANGED <<backend, crt, users, prt, req, cache, news, bookmarks, cats, subs, txn, wseq, ev, det, edt, reads>>

\* CategoryListView.get
CategoryListView_get(user, fg) ==
    CachedRead("categories", CategoriesAllKey, user, TRUE,
               [NoData EXCEPT !.head = {CategorySerializer(c) : c \in Existing(cats)},
                              !.count = Cardinality(Existing(cats))],
               fg, 400, 400)

\* CategoryDetailView.get: Http404 is caught by `except Exception`
CategoryDetailView_get(id, user, fg) ==
    CachedRead("category", CategoryKey(id), user, cats[id].present,
               [NoData EXCEPT !.head = {CategorySerializer(id)}, !.count = 1],
               fg, 400, 400)

\* SubCategoryDetailView.get
SubCategoryDetailView_get(id, user, fg) ==
    CachedRead("subcategory", SubCategoryKey(id), user, subs[id].present,
               [NoData EXCEPT !.head = {SubCategorySerializer(id)}, !.count = 1],
               fg, 400, 400)

\* SubCategoryPageView.get: its handler of line 443 answers 500 with the
\* subcategory it looks up again, and lets that lookup's Http404 through
SubCategoryPageView_get(id, page, size, user, fg) ==
    CachedRead("subcategory_page", SubCategoryPageKey(id, page, size), user,
               subs[id].present, SubCategoryPageData(id, page, size, user),
               fg, IF subs[id].present THEN 500 ELSE 404, 404)

\* the toggle followed by news.save(): post_save reaches invalidate_news_cache
BookmarkNewsView_post_saving(user, id) ==
    /\ news[id].present
    /\ bookmarks' = IF <<user, id>> \in bookmarks
                     THEN bookmarks \ {<<user, id>>}
                     ELSE bookmarks \cup {<<user, id>>}
    /\ cache' = invalidate_news_cache(cache, backend, FALSE, FALSE).cache
    /\ lastResp' = success_response("bookmark", user, NoData, FALSE)
    /\ UNCHANGED <<backend, crt, users, prt, req, news, cats, subs, txn, wseq, ev, rd, det, edt, reads>>

\* BookmarkNewsView.post: toggle the requester's bookmark of a News
BookmarkNewsView_post(user, id) ==
    /\ IF news[id].present
       THEN /\ bookmarks' = IF <<user, id>> \in bookmarks
                            THEN bookmarks \ {<<user, id>>}
                            ELSE bookmarks \cup {<<user, id>>}
            /\ lastResp' = success_response("bookmark", user, NoData, FALSE)
       ELSE /\ lastResp' = error_response("bookmark", user, 400, FALSE)
            /\ UNCHANGED bookmarks
    /\ UNCHANGED <<backend, crt, users, prt, req, cache, news, cats, subs, txn, wseq, ev, rd, det, edt, reads>>

----------------------------------------------------------------------------
(* The read paths, for every requester and with cache calls that may raise *)

NextRead ==
    \/ \E user \in Users, id \in NewsIds : BookmarkNewsView_post(user, id)
    \/ \E user \in Requesters, lim \in LimitParams, fg \in BOOLEAN :
          LatestNewsView_get(user, lim, fg)
    \/ \E user \in Requesters, fg \in BOOLEAN : CategoryListView_get(user, fg)
    \/ \E fs \in BOOLEAN : CacheSetAndRespond(fs)

SpecRead == Init /\ [][NextRead]_vars

(* C4: a successful response that carries serialized News was serialized   *)
(* for the requester it is delivered to: its is_bookmarked flags were      *)
(* computed against that requester's bookmarks, not against those of the   *)
(* requester whose miss populated the cache entry.                         *)
C4_NoCrossUserBookmark ==
    (lastResp.status = "success" /\ lastResp.viewer # "-")
        => lastResp.viewer = lastResp.user

(* C11: a bookmark add or remove changes the bookmark relation only: the  *)
(* step leaves every cache entry and every News row as it was, and no      *)
(* receiver runs.                                                          *)
C11_BookmarkTouchesOnlyRelation ==
    [][bookmarks' # bookmarks
        => /\ cache' = cache
           /\ news' = news
           /\ ev' = ev]_vars

C11_Witness ==
    /\ lastResp.view = "bookmark"
    /\ lastResp.status = "success"
    /\ bookmarks # {}
    /\ \E k \in DOMAIN cache : Matches(k, NewsPattern)

(* C6: a cache.get or cache.set that raises during a read is never         *)
(* surfaced as an error response: the request is answered with success.    *)
C6_CacheFailureFailsOpen ==
    lastResp.cacheErr => lastResp.status = "success"

----------------------------------------------------------------------------
(* SubCategory writes against the cached subcategory views *)

NextSubCategory ==
    \/ \E op \in {"create", "update"}, id \in SubIds, parent \in CatIds,
          f1 \in BOOLEAN, f2 \in BOOLEAN :
          SubCategorySave(op, id, parent, f1, f2)
    \/ \E id \in SubIds, f1 \in BOOLEAN, f2 \in BOOLEAN, g1 \in BOOLEAN, g2 \in BOOLEAN :
          SubCategoryDelete(id, f1, f2, g1, g2)
    \/ \E id \in SubIds : SubCategoryDetailView_get(id, Anon, FALSE)
    \/ \E id \in SubIds, page \in PageParams, size \in SizeParams :
          SubCategoryPageView_get(id, page, size, Anon, FALSE)
    \/ CacheSetAndRespond(FALSE)

SpecSubCategory == Init /\ [][NextSubCategory]_vars

\* the cache entries scoped to SubCategory s
SubCategoryScoped(k, s) ==
    k = SubCategoryKey(s) \/ Matches(k, SubCategoryPagePattern(s))

(* C9: when a SubCategory create, update or delete and its receiver have   *)
(* run and no cache call raised, the entry "subcategory:<id>" and every    *)
(* "subcategory_page:<id>:page=..:size=.." entry that was cached before    *)
(* the write are gone, whatever the backend.                               *)
C9_SubCategoryEntriesEvicted ==
    [][(WriteStep /\ ev'.kind = "subcategory" /\ ~ev'.failed)
        => \A k \in DOMAIN cache : SubCategoryScoped(k, ev'.id) => k \notin DOMAIN cache']_vars

----------------------------------------------------------------------------
(* Category writes against the cached category views *)

NextCategory ==
    \/ \E op \in {"create", "update"}, id \in CatIds, f1 \in BOOLEAN, f2 \in BOOLEAN :
          CategorySave(op, id, f1, f2)
    \/ \E id \in CatIds, f1 \in BOOLEAN, f2 \in BOOLEAN, g1 \in BOOLEAN, g2 \in BOOLEAN :
          CategoryDelete(id, f1, f2, g1, g2)
    \/ CategoryListView_get(Anon, FALSE)
    \/ \E id \in CatIds : CategoryDetailView_get(id, Anon, FALSE)
    \/ \E id \in SubIds : SubCategoryDetailView_get(id, Anon, FALSE)
    \/ CacheSetAndRespond(FALSE)

SpecCategory == Init /\ [][NextCategory]_vars

\* the detail entries of the categories other than c are as they were
OtherCategoriesUntouched(c) ==
    \A d \in CatIds \ {c} :
        /\ CategoryKey(d) \in DOMAIN cache <=> CategoryKey(d) \in DOMAIN cache'
        /\ CategoryKey(d) \in DOMAIN cache => cache'[CategoryKey(d)] = cache[CategoryKey(d)]

----------------------------------------------------------------------------
(* blog/managers.py: the ranking queries.  created is counted in days.     *)
(* order_by leaves the order of the rows that tie on every field it names  *)
(* to the database; tb is the order the database yields such rows in.      *)

Week == 7

\* the orders a database may yield the rows of S in
Perms(S) ==
    {p \in [1..Cardinality(S) -> S] : \A x \in S : \E i \in DOMAIN p : p[i] = x}

Pos(tb, x) == CHOOSE i \in DOMAIN tb : tb[i] = x

\* the values of the order_by fields of row n ("-views", "-created")
SortKey(table, n, fields) ==
    [i \in DOMAIN fields |->
        IF fields[i] = "-views" THEN table[n].views ELSE table[n].created]

\* descending order on the keys, field by field
RECURSIVE KeyAbove(_, _)
KeyAbove(kx, ky) ==
    IF kx = <<>> THEN FALSE
    ELSE \/ Head(kx) > Head(ky)
         \/ Head(kx) = Head(ky) /\ KeyAbove(Tail(kx), Tail(ky))

ComesBefore(table, x, y, fields, tb) ==
    LET kx == SortKey(table, x, fields)
        ky == SortKey(table, y, fields)
    IN  KeyAbove(kx, ky) \/ (kx = ky /\ Pos(tb, x) < Pos(tb, y))

\* queryset.order_by(*fields)
RECURSIVE order_by(_, _, _, _)
order_by(table, ids, fields, tb) ==
    IF ids = {}
    THEN <<>>
    ELSE LET m == CHOOSE x \in ids :
                     \A y \in ids \ {x} : ComesBefore(table, x, y, fields, tb)
         IN  <<m>> \o order_by(table, ids \ {m}, fields, tb)

\* qs[:limit] if limit else qs
SliceIfLimit(qs, limit) == IF limit # 0 THEN Take(qs, limit) ELSE qs

\* filter(created__gte=timezone.now() - timedelta(days=7))
WithinWeek(table, ids, now) == {n \in ids : table[n].created >= now - Week}

\* NewsManager.get_latest with the database's order of ties
get_latest_tb(table, limit, tb) ==
    SliceIfLimit(order_by(table, Existing(table), <<"-created">>, tb), limit)

\* NewsManager.get_trending(limit=10)
get_trending(table, limit, now, tb) ==
    SliceIfLimit(order_by(table, WithinWeek(table, Existing(table), now),
                          <<"-views", "-created">>, tb), limit)

\* NewsManager.get_most_watched_videos(limit=10)
get_most_watched_videos(table, limit, tb) ==
    SliceIfLimit(order_by(table, {n \in Existing(table) : table[n].media_type = "video"},
                          <<"-views", "-created">>, tb), limit)

\* NewsManager.get_hot_stories_this_week(limit=5)
get_hot_stories_this_week(table, limit, now, tb) ==
    SliceIfLimit(order_by(table, WithinWeek(table, Existing(table), now),
                          <<"-views">>, tb), limit)

\* NewsManager.get_most_viewed(limit=10)
get_most_viewed(table, limit, tb) ==
    SliceIfLimit(order_by(table, Existing(table), <<"-views">>, tb), limit)

\* subcategory__category of a News row
CategoryOf(table, n) == subs[table[n].parent].parent

\* values_list('subcategory__category') of the News the user bookmarked
bookmarked_category_ids(table, user, bm) ==
    {CategoryOf(table, n) : n \in {x \in Existing(table) : <<user, x>> \in bm}}

\* the recommendation without its two filters
recommended_qs_unfiltered(table, user, bm) == Existing(table)

\* filter(subcategory__category__in=...).exclude(bookmarks=user)
recommended_qs(table, user, bm) ==
    {n \in Existing(table) :
        /\ CategoryOf(table, n) \in bookmarked_category_ids(table, user, bm)
        /\ <<user, n>> \notin bm}

\* NewsManager.get_recommended(user, limit=10)
get_recommended(table, user, bm, limit, now, tb) ==
    IF user \in Users /\ bookmarked_category_ids(table, user, bm) # {}
    THEN Take(order_by(table, recommended_qs(table, user, bm), <<"-created">>, tb), limit)
    ELSE IF limit # 0
         THEN get_trending(table, limit, now, tb)
         ELSE get_latest_tb(table, limit, tb)

----------------------------------------------------------------------------
(* The personalized view and the expiry of cache entries *)

\* getattr(request.user, 'id', 'anon'): AnonymousUser has the attribute id,
\* and it is None
UserPart(user) == IF user \in Users THEN user ELSE "None"

\* f"news:recommended:user={id}:limit={limit}"
RecommendedKey(user, lim) ==
    <<"news", "recommended", "user", UserPart(user), "limit", lim>>

\* RecommendedNewsView.get up to the miss: lines 208-221
RecommendedNewsView_get(user, lim, now, tb) ==
    CachedRead("recommended", RecommendedKey(user, lim), user, TRUE,
               limited_queryset_and_respond(
                   news, get_recommended(news, user, bookmarks, DefaultLimit, now, tb),
                   lim, user, bookmarks),
               FALSE, 500, 500)

RecommendedKeys == {RecommendedKey(u, "None") : u \in Requesters}

NextRecommended ==
    \/ \E user \in Users, id \in NewsIds : BookmarkNewsView_post(user, id)
    \/ \E user \in Requesters, tb \in Perms(NewsIds) :
          RecommendedNewsView_get(user, "None", Week, tb)
    \/ CacheSetAndRespond(FALSE)
    \/ \E key \in RecommendedKeys : CacheExpire(key)

SpecRecommended == Init /\ [][NextRecommended]_vars

\* time passes: the timeout of an entry that stays cached runs out
FairSpecRecommended ==
    SpecRecommended /\ \A key \in RecommendedKeys : WF_vars(CacheExpire(key))

\* what a `recommended` request of user u computes from the store as it is
FreshRecommended(u) ==
    {limited_queryset_and_respond(
         news, get_recommended(news, u, bookmarks, DefaultLimit, Week, tb),
         "None", u, bookmarks) : tb \in Perms(NewsIds)}

\* u's cached `recommended` entry is not what the store gives now
StaleRecommended(u) ==
    /\ RecommendedKey(u, "None") \in DOMAIN cache
    /\ cache[RecommendedKey(u, "None")] \notin FreshRecommended(u)

(* C12: bookmark staleness is bounded: whenever user U's cached            *)
(* `recommended` entry differs from what the store gives for U's bookmarks *)
(* (it holds a pre-toggle result), the entry is eventually gone or fresh   *)
(* again, whatever requests are made meanwhile.                            *)
C12_BookmarkStalenessBounded ==
    \A u \in Users : StaleRecommended(u) ~> ~StaleRecommended(u)

C12_Witness ==
    /\ StaleRecommended("u1")
    /\ lastResp.view = "recommended"
    /\ lastResp.user = "u1"
    /\ lastResp.hit

\* the identity the spec's key format embeds for a requester
Identity(user) == IF user \in Users THEN user ELSE "anon"

(* C13: every cached `recommended` entry lies under the key that embeds    *)
(* the identity of the requester it was computed for, the literal "anon"   *)
(* for an unauthenticated caller.                                          *)
C13_RecommendedKeyEmbedsIdentity ==
    \A k \in DOMAIN cache :
        (Len(k) = 6 /\ k[2] = "recommended") => k[4] = Identity(cache[k].viewer)

----------------------------------------------------------------------------
(* The ranking views with the database's order of ties, and the keys they  *)
(* cache under                                                             *)

\* TrendingNewsView.get up to the miss
TrendingNewsView_get(user, lim, now, tb) ==
    CachedRead("trending", NewsListKey("trending", lim), user, TRUE,
               limited_queryset_and_respond(
                   news, get_trending(news, DefaultLimit, now, tb), lim, user, bookmarks),
               FALSE, 500, 500)

\* MostWatchedView.get up to the miss
MostWatchedView_get(user, lim, tb) ==
    CachedRead("mostwatched", NewsListKey("mostwatched", lim), user, TRUE,
               limited_queryset_and_respond(
                   news, get_most_watched_videos(news, DefaultLimit, tb), lim, user,
                   bookmarks),
               FALSE, 500, 500)

\* ?limit= absent, and two ways of asking for ten and one
\* "abc": a limit that is no integer
KeyLimitParams == {"None", "10", "1", "abc"}

NextKeys ==
    \/ \E lim \in KeyLimitParams : LatestNewsView_get(Anon, lim, FALSE)
    \/ \E lim \in KeyLimitParams, tb \in Perms(NewsIds) :
          TrendingNewsView_get(Anon, lim, Week, tb)
    \/ CacheSetAndRespond(FALSE)

SpecKeys == Init /\ [][NextKeys]_vars

\* k is the key of a ranking view: news:<view>:limit=<limit>
IsNewsListKey(k) == Len(k) = 4 /\ k[1] = "news" /\ k[3] = "limit"

(* C14: the cache key depends on the logical parameters only: two cached   *)
(* entries of one ranking view whose requests had the same effective limit *)
(* lie under the same key.                                                 *)
C14_KeyFromLogicalParameters ==
    \A k1 \in DOMAIN cache, k2 \in DOMAIN cache :
        (/\ IsNewsListKey(k1) /\ IsNewsListKey(k2)
         /\ k1[2] = k2[2]
         /\ LimitVal(k1[4], DefaultLimit) = LimitVal(k2[4], DefaultLimit))
            => k1 = k2

----------------------------------------------------------------------------
(* The ranking queries on every small store: the News rows are drawn from  *)
(* RankRows, and a query is applied once to the store it finds.            *)

RankIds == {"n1", "n2", "n3"}
RankViews == 0..1
RankCreated == 0..2
MediaTypes == {"video", "image"}

\* the day of the requests: rows created on day 0 are older than a week
RankNow == Week + 1

RankRows(parents) ==
    {[Row(0, v, c, p) EXCEPT !.media_type = mt] :
        v \in RankViews, c \in RankCreated, p \in parents, mt \in MediaTypes}

\* a store of three News, two Categories with one SubCategory each
InitStore(rows, marks) ==
    /\ backend \in {"locmem"}
    /\ cache = <<>>
    /\ news \in [RankIds -> rows]
    /\ bookmarks \in marks
    /\ cats = [i \in CatIds |-> Row(0, 0, 0, "-")]
    /\ subs = [i \in SubIds |-> Row(0, 0, 0, IF i = "s1" THEN "c1" ELSE "c2")]
    /\ txn = NoTxn
    /\ wseq = 0
    /\ ev = NoEvent
    /\ rd = Idle
    /\ lastResp = NoResp
    /\ det = [s \in DetSlots |-> NoInstance]
    /\ edt = NoInstance
    /\ reads = [i \in NewsIds |-> 0]
    /\ crt = [s \in DetSlots |-> NoInstance]
    /\ users = [e \in Emails |-> NoUser]
    /\ prt = [t \in {"t1", "t2"} |-> NoToken]
    /\ req = [s \in DetSlots |-> NoRequest]

InitRanking == InitStore(RankRows({"s1"}), {{}})

\* limit arguments of a manager call, written as the integers they are
QueryLimits == {"0", "1", "2", "10"}

\* the rows a NewsManager method returns for limit
ManagerRows(name, limit, now, tb) ==
    CASE name = "latest" -> get_latest_tb(news, limit, tb)
      [] name = "trending" -> get_trending(news, limit, now, tb)
      [] name = "mostwatched" -> get_most_watched_videos(news, limit, tb)
      [] name = "hot" -> get_hot_stories_this_week(news, limit, now, tb)
      [] name = "most_viewed" -> get_most_viewed(news, limit, tb)

ManagerNames == {"latest", "trending", "mostwatched", "hot", "most_viewed"}

\* News.objects.<name>(limit=<lim>), evaluated
ManagerQuery(name, lim, now, tb) ==
    /\ rd.pc = "idle"
    /\ rd' = [pc |-> "query", view |-> name, key |-> <<"news", name, "limit", lim>>,
              user |-> Anon,
              data |-> LET q == ManagerRows(name, IntOf(lim), now, tb)
                       IN  [rows |-> NewsSerializer(news, q, Anon, bookmarks),
                            head |-> {}, count |-> Len(q), viewer |-> Anon]]
    /\ UNCHANGED <<backend, crt, users, prt, req, cache, news, bookmarks, cats, subs, txn, wseq, ev, lastResp,
                   det, edt, reads>>

NextRanking ==
    \/ \E name \in ManagerNames, lim \in QueryLimits, tb \in Perms(RankIds) :
          ManagerQuery(name, lim, RankNow, tb)
    \/ \E lim \in LimitParams, tb \in Perms(RankIds) :
          TrendingNewsView_get(Anon, lim, RankNow, tb)
    \/ \E lim \in LimitParams, tb \in Perms(RankIds) :
          MostWatchedView_get(Anon, lim, tb)

SpecRanking == InitRanking /\ [][NextRanking]_vars

\* the rows of the ranking the request in flight has computed
Ranked == rd.data.rows
RankedIds == [i \in DOMAIN Ranked |-> Ranked[i].id]

\* the News the filter of ranking `name` lets through
Matching(name) ==
    CASE name \in {"latest", "most_viewed"} -> Existing(news)
      [] name \in {"trending", "hot"} -> WithinWeek(news, Existing(news), RankNow)
      [] name = "mostwatched" -> {n \in Existing(news) : news[n].media_type = "video"}

(* C18: every ranking query called with limit N >= 0 returns exactly       *)
(* min(N, number of matching News) items, N = 0 included.                  *)
C18_BoundRespected ==
    /\ rd.pc = "query"
        => Len(Ranked) = Min(IntOf(rd.key[4]), Cardinality(Matching(rd.view)))
    /\ (rd.pc = "miss" /\ rd.view \in {"trending", "mostwatched"})
        => Len(Ranked) = Min(LimitVal(rd.key[4], DefaultLimit),
                             Cardinality(Matching(rd.view)))

\* order by id descending: the ids in ascending order
IdOrder == <<"n1", "n2", "n3">>

\* x is ranked above y by views, then creation time, then id, all descending
RanksAbove(x, y) ==
    \/ news[x].views > news[y].views
    \/ news[x].views = news[y].views /\ news[x].created > news[y].created
    \/ /\ news[x].views = news[y].views
       /\ news[x].created = news[y].created
       /\ Pos(IdOrder, x) > Pos(IdOrder, y)

(* C19: in every views-ordered ranking, items with equal views come in     *)
(* creation-time-descending order and items equal in both in id-descending *)
(* order, so the result is a function of the store.                        *)
C19_TieBreakDeterministic ==
    (rd.pc \in {"query", "miss"}
      /\ rd.view \in {"most_viewed", "hot", "trending", "mostwatched"})
        => \A i \in DOMAIN Ranked, j \in DOMAIN Ranked :
              i < j => RanksAbove(Ranked[i].id, Ranked[j].id)

(* C20: most_watched_video returns only News of media kind video created   *)
(* within the last 7 days, in views-descending order.                      *)
C20_MostWatchedRecentVideos ==
    (rd.pc \in {"query", "miss"} /\ rd.view = "mostwatched")
        => /\ \A i \in DOMAIN Ranked :
                /\ news[Ranked[i].id].media_type = "video"
                /\ news[Ranked[i].id].created >= RankNow - Week
           /\ \A i \in DOMAIN Ranked, j \in DOMAIN Ranked :
                i < j => news[Ranked[i].id].views >= news[Ranked[j].id].views

----------------------------------------------------------------------------
(* `recommended` on every small store and bookmark set of user u1 *)

RecommendRows == {Row(0, v, c, p) : v \in RankViews, c \in RankCreated, p \in SubIds}

InitRecommendation == InitStore(RecommendRows, SUBSET ({"u1"} \X RankIds))

NextRecommendation ==
    \E user \in {"u1", Anon}, lim \in LimitParams, tb \in Perms(RankIds) :
        RecommendedNewsView_get(user, lim, RankNow, tb)

SpecRecommendation == InitRecommendation /\ [][NextRecommendation]_vars

\* the News user u has bookmarked
BookmarkedBy(u) == {n \in Existing(news) : <<u, n>> \in bookmarks}

\* a `recommended` request of a requester with / without bookmarks has
\* computed its rows
RecommendedFor(marked) ==
    /\ rd.pc = "miss"
    /\ rd.view = "recommended"
    /\ marked <=> (rd.user \in Users /\ BookmarkedBy(rd.user) # {})

\* latest(limit=N) for the request's N, in each order the database may
\* yield ties in
LatestForRequest ==
    {Take(get_latest_tb(news, DefaultLimit, tb), LimitVal(rd.key[6], DefaultLimit)) :
        tb \in Perms(RankIds)}

(* C15: for an unauthenticated caller and for a user with no bookmarks,    *)
(* `recommended` returns the same ordered sequence as `latest` with the    *)
(* same limit on the same store.                                           *)
C15_RecommendedFallsBackToLatest ==
    RecommendedFor(FALSE) => RankedIds \in LatestForRequest

(* C16: for a user with at least one bookmark, every recommended item is   *)
(* in a Category in which the user has bookmarked a News, none is a News   *)
(* the user has bookmarked, and the items are in creation-time-descending  *)
(* order.                                                                  *)
C16_RecommendedFromBookmarkedCategories ==
    RecommendedFor(TRUE)
        => /\ \A i \in DOMAIN Ranked :
                /\ \E b \in BookmarkedBy(rd.user) :
                      CategoryOf(news, b) = CategoryOf(news, Ranked[i].id)
                /\ Ranked[i].id \notin BookmarkedBy(rd.user)
           /\ \A i \in DOMAIN Ranked, j \in DOMAIN Ranked :
                i < j => news[Ranked[i].id].created >= news[Ranked[j].id].created

C16_Witness ==
    /\ RecommendedFor(TRUE)
    /\ Len(Ranked) = 2
    /\ news[Ranked[1].id].created > news[Ranked[2].id].created
    /\ Cardinality(BookmarkedBy(rd.user)) = 1

(* C17: for a user with bookmarks, `recommended` with bound N holds at     *)
(* least min(N, number of News the user has not bookmarked) items, padded  *)
(* beyond the category-derived ones, and holds no News twice.              *)
C17_RecommendedPadded ==
    RecommendedFor(TRUE)
        => /\ Len(Ranked) >= Min(LimitVal(rd.key[6], DefaultLimit),
                                 Cardinality(Existing(news) \ BookmarkedBy(rd.user)))
           /\ \A i \in DOMAIN Ranked, j \in DOMAIN Ranked :
                Ranked[i].id = Ranked[j].id => i = j

----------------------------------------------------------------------------
(* Creating and editing News: slug, excerpt and media kind *)

\* News(...).save() of a new instance, up to super().save(): lines 93-124
CreateCheck(s, draft) ==
    /\ crt[s].pc = "idle"
    /\ wseq + Cardinality({t \in DetSlots : crt[t].pc = "checked"}) < MaxWrites
    /\ Cardinality(DOMAIN news \ Existing(news))
          > Cardinality({t \in DetSlots : crt[t].pc = "checked"})
    /\ crt' = [crt EXCEPT ![s] = [pc |-> "checked", id |-> "-",
                                  inst |-> News_save(news, "-", draft)]]
    /\ UNCHANGED <<backend, cache, news, bookmarks, cats, subs, txn, wseq, ev, rd,
                   lastResp, det, edt, reads, users, prt, req>>

\* super().save() of the new instance: the INSERT and the post_save receiver
CreateInsert(s, strict, f1, f2) ==
    /\ crt[s].pc = "checked"
    /\ LET inst == crt[s].inst
           id == CHOOSE i \in DOMAIN news : ~news[i].present
           r == invalidate_news_cache(cache, backend, f1, f2)
       IN  IF \/ UniqueViolation(news, inst)
              \/ strict /\ SlugLength(inst.slug) > SlugMaxLength
           THEN UNCHANGED <<news, wseq, cache, ev>>
           ELSE /\ news' = [news EXCEPT ![id] = [inst EXCEPT !.created = wseq + 1]]
                /\ wseq' = wseq + 1
                /\ cache' = r.cache
                /\ ev' = Event("news", "-", r, cache)
    /\ crt' = [crt EXCEPT ![s] = NoInstance]
    /\ UNCHANGED <<backend, bookmarks, cats, subs, txn, rd, lastResp, det, edt, reads,
                   users, prt, req>>

\* the editor changes fields of the instance in the change form
EditorEdit(inst) ==
    /\ edt.pc = "loaded"
    /\ edt.inst = news[edt.id]
    /\ edt' = [edt EXCEPT !.inst = inst]
    /\ UNCHANGED <<backend, cache, news, bookmarks, cats, subs, txn, wseq, ev, rd,
                   lastResp, det, reads, crt, users, prt, req>>

\* manage.py excerpts, for one row of News.objects.filter(excerpt=""):
\* news.save(update_fields=["excerpt"])
ExcerptsCommand(id, f1, f2) ==
    /\ wseq < MaxWrites + MaxReads
    /\ news[id].present
    /\ news[id].excerpt = NoExcerpt
    /\ news[id].content # NoContent
    /\ LET r == invalidate_news_cache(cache, backend, f1, f2)
       IN  /\ news' = [news EXCEPT ![id].excerpt = auto_excerpt(news[id].content)]
           /\ wseq' = wseq + 1
           /\ cache' = r.cache
           /\ ev' = Event("news", "-", r, cache)
    /\ UNCHANGED <<backend, bookmarks, cats, subs, txn, rd, lastResp, det, edt, reads,
                   crt, users, prt, req>>

NextSlug ==
    \/ \E s \in DetSlots, t \in Titles : CreateCheck(s, Draft(t, NoContent, <<>>, "none"))
    \/ \E s \in DetSlots, strict \in BOOLEAN : CreateInsert(s, strict, FALSE, FALSE)

\* the store holds rows that earlier creations left: a first row per title,
\* or a row with the suffix 2 whose predecessor has been deleted
InitSlug ==
    /\ InitStore({NoRow} \cup
                 {[Draft(t, NoContent, <<>>, "none") EXCEPT !.slug = slugify(t)] :
                     t \in Titles} \cup
                 {[Draft(t, NoContent, <<>>, "none")
                      EXCEPT !.slug = [slugify(t) EXCEPT !.n = 2]] :
                     t \in {[stem |-> "fuel-price", len |-> 10]}},
                 {{}})
    /\ news["n3"] = NoRow
    /\ \A i, j \in Existing(news) : i # j => news[i].slug # news[j].slug

SpecSlug == InitSlug /\ [][NextSlug]_vars

FreeSlug(table, slug) == ~\E i \in Existing(table) : table[i].slug = slug

\* the slugified title, or the title with the smallest free suffix
ExpectedSlug(table, title) ==
    LET base == slugify(title)
        k == CHOOSE c \in 1..(Cardinality(Existing(table)) + 1) :
                 /\ FreeSlug(table, [base EXCEPT !.n = c])
                 /\ \A j \in 1..(c - 1) : ~FreeSlug(table, [base EXCEPT !.n = j])
    IN  IF FreeSlug(table, base) THEN base ELSE [base EXCEPT !.n = k]

(* C21: a News created with no slug, while no other creation changes the   *)
(* store between its slug check and its INSERT, gets the slugified title   *)
(* if that is free and otherwise the title with the smallest free numeric  *)
(* suffix, and the creation succeeds: the row is inserted under that slug. *)
C21_IdenticalTitlesGetSuffixes ==
    [][\A s \in DetSlots :
          /\ (crt[s].pc = "idle" /\ crt'[s].pc = "checked")
                => crt'[s].inst.slug = ExpectedSlug(news, crt'[s].inst.title)
          /\ (/\ crt[s].pc = "checked"
              /\ crt'[s].pc = "idle"
              /\ crt[s].inst.slug = ExpectedSlug(news, crt[s].inst.title))
                => \E id \in DOMAIN news :
                      /\ ~news[id].present
                      /\ news'[id].present
                      /\ news'[id].slug = crt[s].inst.slug]_vars

(* C22: in every reachable state no two persisted News rows share a slug,  *)
(* however the slug checks and INSERTs of concurrent creations interleave. *)
C22_SlugsUnique ==
    \A i, j \in Existing(news) : i # j => news[i].slug # news[j].slug

\* a creation in flight whose slug another creation has taken since its check
C22_Witness ==
    \E s \in DetSlots :
        /\ crt[s].pc = "checked"
        /\ \E i \in Existing(news) :
              /\ news[i].slug = crt[s].inst.slug
              /\ news[i].created > 0

----------------------------------------------------------------------------
(* One News row through creation, editorial saves, detail reads and the    *)
(* excerpt backfill                                                        *)

\* what callers hand to News(...): backfill_content.py sets media and
\* media_type before save()
ContentDrafts ==
    {Draft(t, NoContent, <<>>, "none") : t \in {[stem |-> "", len |-> 0]}} \cup
    {Draft([stem |-> "fuel-price", len |-> 10], c, <<>>, "none") :
        c \in {[text |-> "", len |-> 0, markup |-> TRUE],
               [text |-> "x", len |-> 150, markup |-> TRUE],
               [text |-> "y", len |-> 151, markup |-> FALSE]}} \cup
    {Draft([stem |-> "fuel-price", len |-> 10], NoContent, md[1], md[2]) :
        md \in {<< <<"photo", "JPG">>, "video" >>, << <<"clip", "mp4">>, "image" >>,
                << <<"notes", "pdf">>, "video" >>, << <<"public_id">>, "image" >>,
                << <<>>, "video" >>}}

\* what an editor changes in the change form of the instance
Edits(inst) ==
    {[inst EXCEPT !.title = [stem |-> "long-headline", len |-> 199]],
     [inst EXCEPT !.content = [text |-> "y", len |-> 151, markup |-> FALSE]],
     [inst EXCEPT !.content = [text |-> "", len |-> 0, markup |-> TRUE]],
     [inst EXCEPT !.excerpt = NoExcerpt],
     [inst EXCEPT !.media = <<"clip", "mp4">>, !.media_type = "image"]}

NextContent ==
    \/ \E d \in ContentDrafts : CreateCheck("d1", d)
    \/ \E strict \in BOOLEAN : CreateInsert("d1", strict, FALSE, FALSE)
    \/ EditorLoad("n1")
    \/ \E e \in Edits(edt.inst) : EditorEdit(e)
    \/ EditorSave(FALSE, FALSE, TRUE)
    \/ DetailLoad("d1", "n1", Anon)
    \/ DetailSave("d1", Anon, FALSE, FALSE)
    \/ ExcerptsCommand("n1", FALSE, FALSE)

\* n1 is absent or a row from before save() derived excerpts; n2 and n3
\* are rows of the same title
InitContent ==
    /\ InitStore({NoRow,
                  [Draft([stem |-> "fuel-price", len |-> 10],
                         [text |-> "x", len |-> 10, markup |-> FALSE], <<>>, "none")
                      EXCEPT !.slug = slugify([stem |-> "fuel-price", len |-> 10])]} \cup
                 {[Draft([stem |-> "fuel-price", len |-> 10], NoContent, <<>>, "none")
                      EXCEPT !.slug = [slugify([stem |-> "fuel-price", len |-> 10])
                                          EXCEPT !.n = k]] : k \in 1..2},
                 {{}})
    /\ news["n1"].slug.n = 0
    /\ \A k \in 1..2 : news[IF k = 1 THEN "n2" ELSE "n3"].slug.n = k

SpecContent == InitContent /\ [][NextContent]_vars

(* C23: once a News has a non-empty slug, no later view-increment,         *)
(* editorial save with a changed title or excerpt backfill changes the     *)
(* stored slug.                                                            *)
C23_SlugNeverChanges ==
    [][\A id \in DOMAIN news :
          (news[id].present /\ SlugLength(news[id].slug) > 0 /\ news'[id].present)
              => news'[id].slug = news[id].slug]_vars

\* the row from before the excerpts, saved by the editor under another
\* title, read, and holding an excerpt
C23_Witness ==
    /\ news["n1"].present
    /\ news["n1"].created = 0
    /\ news["n1"].rev > 0
    /\ news["n1"].views > 0
    /\ news["n1"].excerpt # NoExcerpt
    /\ SlugLength(news["n1"].slug) > 0
    /\ news["n1"].slug.stem # news["n1"].title.stem

\* len(excerpt)
ExcerptLength(e) == e.len + (IF e.dots THEN 3 ELSE 0)

(* C24: a News saved with no excerpt gets as excerpt its markup-stripped   *)
(* content verbatim when that is at most 150 characters long, and else its *)
(* first 150 characters followed by "...": never more than 153 characters. *)
C24_ExcerptDerivation ==
    [][\A id \in DOMAIN news :
          (/\ news'[id].present
           /\ ~news[id].present \/ news'[id].excerpt # news[id].excerpt)
              => LET e == news'[id].excerpt
                     c == news'[id].content
                 IN  /\ e.text = c.text
                     /\ IF c.len <= 150
                        THEN e.len = c.len /\ ~e.dots
                        ELSE e.len = 150 /\ e.dots
                     /\ ExcerptLength(e) <= 153]_vars

\* a row whose excerpt is the first 150 characters of a longer content and
\* the dots
C24_Witness ==
    /\ news["n1"].present
    /\ news["n1"].content.len > 150
    /\ news["n1"].excerpt.text = news["n1"].content.text
    /\ ExcerptLength(news["n1"].excerpt) = 153

(* C25: every persisted News with non-empty content has a non-empty        *)
(* excerpt, also when the content is only markup and when a view-increment *)
(* wrote the row last.  Stated for the rows News.save() created.           *)
C25_ContentHasExcerpt ==
    \A id \in DOMAIN news :
        (news[id].present /\ news[id].created > 0 /\ news[id].content # NoContent)
            => news[id].excerpt # NoExcerpt

(* C26: a non-empty excerpt is never recomputed: a stored excerpt changes  *)
(* only in a save on which the excerpt is empty (the stored one is empty,  *)
(* or the instance saved carries an empty one); an update that changes the *)
(* content leaves it as it is.                                             *)
C26_ExcerptKept ==
    [][\A id \in DOMAIN news :
          (news[id].present /\ news'[id].present
              /\ news'[id].excerpt # news[id].excerpt)
              => \/ news[id].excerpt = NoExcerpt
                 \/ /\ edt.pc = "loaded"
                    /\ edt.id = id
                    /\ edt.inst.excerpt = NoExcerpt
                    /\ edt'.pc = "idle"]_vars

\* a row whose content an editorial save replaced and whose excerpt is
\* still the one cut from the earlier content
C26_Witness ==
    /\ news["n1"].present
    /\ news["n1"].rev > 0
    /\ news["n1"].excerpt # NoExcerpt
    /\ news["n1"].excerpt.text # news["n1"].content.text

\* the media kind the extension of a media name stands for
KindOf(media) ==
    LET ext == IF Len(media) > 1 THEN media[Len(media)] ELSE ""
    IN  CASE ext \in {"jpg", "JPG", "jpeg", "png", "gif", "webp"} -> "image"
          [] ext \in {"mp4", "MP4", "webm", "avi", "mov"} -> "video"
          [] OTHER -> "none"

(* C27: every persisted News whose media is present has the media kind of  *)
(* the media's file extension (image, video, or none for any other), what- *)
(* ever kind the caller supplied.                                          *)
C27_MediaKindFromExtension ==
    \A id \in DOMAIN news :
        (news[id].present /\ news[id].media # <<>>)
            => news[id].media_type = KindOf(news[id].media)

\* a row created from a media name ending in .JPG by a caller that called
\* it a video, persisted as an image and read since
C27_Witness ==
    /\ news["n1"].present
    /\ news["n1"].media = <<"photo", "JPG">>
    /\ news["n1"].media_type = "image"
    /\ news["n1"].views > 0

----------------------------------------------------------------------------
(* Requests that name a missing entity or carry a malformed parameter *)

(* C28: a request for an id of News, Category or SubCategory that does not *)
(* exist is answered with a 404-equivalent and leaves the Entity Store and *)
(* the cache as they were.                                                 *)
C28_MissingIdAnswered404 ==
    [][(/\ lastResp' # lastResp
        /\ lastResp'.view \in {"detail", "category", "subcategory"}
        /\ lastResp'.status = "error"
        /\ ~lastResp'.cacheErr)
          => /\ lastResp'.code = 404
             /\ UNCHANGED <<news, bookmarks, cats, subs, cache>>]_vars

\* limit parameters that are integers and not negative, or absent
WellFormedLimits == {"None", "0", "1", "2", "10"}

(* C29: a request whose limit is not an integer is refused before any      *)
(* store query and before any cache write: no such request reaches the     *)
(* query of a ranking view, and no entry is cached for it.                 *)
C29_MalformedLimitRefused ==
    /\ (rd.pc = "miss" /\ IsNewsListKey(rd.key)) => rd.key[4] \in WellFormedLimits
    /\ \A k \in DOMAIN cache : IsNewsListKey(k) => k[4] \in WellFormedLimits

----------------------------------------------------------------------------
(* Registration: core.views.RegisterView *)

\* EMAIL_SEND_RETRY_COUNT settings
Attempts == {0, 1, 2}

\* _attempt_send(send_fn, ...) from attempt on: whether a call succeeded and
\* how many were made.  outs[i] is what the i-th call of send_fn does: the mail
\* goes out ("sent"), the call returns False ("refused"), or it raises
\* the loop left after its first pass
attempt_send_once(outs, attempt) ==
    [sent |-> outs[attempt] = "sent", calls |-> attempt]

RECURSIVE attempt_send(_, _)
attempt_send(outs, attempt) ==
    IF outs[attempt] = "sent"
    THEN [sent |-> TRUE, calls |-> attempt]
    ELSE IF attempt < Len(outs)
         THEN attempt_send(outs, attempt + 1)
         ELSE [sent |-> FALSE, calls |-> attempt]

\* RegisterView.post under @transaction.atomic.  Both except clauses return
\* a Response, so the atomic block is left without an exception and commits.
\* valid: the serializer accepts the passwords and the terms flag.  Each call
\* of send_verification_email_sync stores a new token on the user.
RegisterView_post(email, valid, outs) ==
    /\ IF ~valid \/ users[email].present
       THEN /\ lastResp' = error_response("register", email, 400, FALSE)
            /\ UNCHANGED users
       ELSE LET a == attempt_send(outs, 1)
            IN  /\ users' = [users EXCEPT ![email] =
                                [NoUser EXCEPT !.present = TRUE, !.tokens = a.calls,
                                                !.password = "p0"]]
                /\ lastResp' = IF a.sent
                               THEN [success_response("register", email, NoData, FALSE)
                                        EXCEPT !.code = 201]
                               ELSE error_response("register", email, 502, FALSE)
    /\ UNCHANGED <<backend, cache, news, bookmarks, cats, subs, txn, wseq, ev, rd,
                   det, edt, reads, crt, prt, req>>

NextRegister ==
    \E email \in Emails, valid \in BOOLEAN, n \in Attempts :
        \* attempts = max(1, EMAIL_SEND_RETRY_COUNT)
        \E outs \in [1..(IF n > 1 THEN n ELSE 1) -> {"sent", "refused", "raised"}] :
            RegisterView_post(email, valid, outs)

SpecRegister == Init /\ [][NextRegister]_vars

(* C30: registration is all-or-nothing with respect to the verification    *)
(* email: when sending fails after all attempts the response is 502 and no *)
(* User row of the registrant remains.                                     *)
C30_RegistrationAllOrNothing ==
    [][(lastResp'.view = "register" /\ lastResp'.code = 502)
          => ~users'[lastResp'.user].present]_vars

----------------------------------------------------------------------------
(* Account views: core.views, core.serializers, core.models *)

\* ResendVerificationView.post.  valid: the value is a well-formed address
\* (EmailField); ResendVerificationSerializer.validate_email then looks the
\* user up.  Each call of send_verification_email_sync stores a new token.
ResendVerificationView_post(email, valid, outs) ==
    /\ users[email].tokens < MaxWrites
    /\ IF ~valid \/ ~users[email].present \/ users[email].email_verified
       THEN \* serializer.errors: views.py 247
            /\ lastResp' = error_response("resend", email, 400, FALSE)
            /\ UNCHANGED users
       ELSE LET a == attempt_send(outs, 1)
            IN  /\ users' = [users EXCEPT ![email].tokens = @ + a.calls]
                /\ lastResp' = success_response("resend", email, NoData, FALSE)
    /\ UNCHANGED <<backend, cache, news, bookmarks, cats, subs, txn, wseq, ev, rd,
                   det, edt, reads, crt, prt, req>>

\* ForgotPasswordView.post up to line 118 of models.py: the UPDATE of
\* PasswordResetToken.create_token
ForgotPasswordView_post(s, email, valid) ==
    /\ req[s].pc = "idle"
    /\ Cardinality({t \in DOMAIN prt : ~prt[t].present})
          > Cardinality({x \in DetSlots : req[x].pc = "updated"})
    /\ IF ~valid
       THEN /\ lastResp' = error_response("forgot", email, 400, FALSE)
            /\ UNCHANGED <<prt, req>>
       ELSE IF ~users[email].present
            THEN /\ lastResp' = success_response("forgot", email, NoData, FALSE)
                 /\ UNCHANGED <<prt, req>>
            ELSE /\ prt' = [t \in DOMAIN prt |->
                              IF prt[t].present /\ prt[t].user = email /\ ~prt[t].used
                              THEN [prt[t] EXCEPT !.used = TRUE] ELSE prt[t]]
                 /\ req' = [req EXCEPT ![s] = [NoRequest EXCEPT !.pc = "updated",
                                                                !.user = email]]
                 /\ UNCHANGED lastResp
    /\ UNCHANGED <<backend, cache, news, bookmarks, cats, subs, txn, wseq, ev, rd,
                   det, edt, reads, crt, users>>

\* the INSERT of create_token (line 120) and the rest of ForgotPasswordView.post:
\* the result of _attempt_send is logged only
create_token(s) ==
    /\ req[s].pc = "updated"
    /\ LET token == CHOOSE t \in DOMAIN prt : ~prt[t].present      \* secrets.token_urlsafe
       IN  prt' = [prt EXCEPT ![token] = [NoToken EXCEPT !.present = TRUE,
                                                         !.user = req[s].user]]
    /\ lastResp' = success_response("forgot", req[s].user, NoData, FALSE)
    /\ req' = [req EXCEPT ![s] = NoRequest]
    /\ UNCHANGED <<backend, cache, news, bookmarks, cats, subs, txn, wseq, ev, rd,
                   det, edt, reads, crt, users>>

\* timezone.now() passes expires_at
TokenExpire(token) ==
    /\ prt[token].present
    /\ ~prt[token].expired
    /\ prt' = [prt EXCEPT ![token].expired = TRUE]
    /\ UNCHANGED <<backend, cache, news, bookmarks, cats, subs, txn, wseq, ev, rd,
                   lastResp, det, edt, reads, crt, users, req>>

\* ResetPasswordView.post up to serializer.is_valid().  valid: the new password
\* passes its validators and equals confirm_password
validate_token(s, token, password, valid) ==
    /\ req[s].pc = "idle"
    /\ IF prt[token].present /\ ~prt[token].used /\ ~prt[token].expired /\ valid
       THEN /\ req' = [req EXCEPT ![s] = [NoRequest EXCEPT !.pc = "validated",
                                                           !.on = token,
                                                           !.arg = password]]
            /\ UNCHANGED lastResp
       ELSE /\ lastResp' = error_response("reset", "-", 400, FALSE)
            /\ UNCHANGED req
    /\ UNCHANGED <<backend, cache, news, bookmarks, cats, subs, txn, wseq, ev, rd,
                   det, edt, reads, crt, users, prt>>

\* ResetPasswordSerializer.save() and the response
ResetPasswordSerializer_save(s) ==
    /\ req[s].pc = "validated"
    /\ LET token == req[s].on
           user == prt[token].user
       IN  /\ users' = [users EXCEPT ![user].password = req[s].arg]
           /\ prt' = [prt EXCEPT ![token].used = TRUE, ![token].resets = @ + 1]
           /\ lastResp' = success_response("reset", user, NoData, FALSE)
    /\ req' = [req EXCEPT ![s] = NoRequest]
    /\ UNCHANGED <<backend, cache, news, bookmarks, cats, subs, txn, wseq, ev, rd,
                   det, edt, reads, crt>>

NextAccount ==
    \/ \E email \in Emails, valid \in BOOLEAN, n \in Attempts :
          \E outs \in [1..(IF n > 1 THEN n ELSE 1) -> {"sent", "refused", "raised"}] :
              ResendVerificationView_post(email, valid, outs)
    \/ \E s \in DetSlots, email \in {"e1", "e3"}, valid \in BOOLEAN :
          ForgotPasswordView_post(s, email, valid)
    \/ \E s \in DetSlots : create_token(s)
    \/ \E token \in DOMAIN prt : TokenExpire(token)
    \/ \E s \in DetSlots, token \in DOMAIN prt, password \in {"p1"}, valid \in BOOLEAN :
          validate_token(s, token, password, valid)
    \/ \E s \in DetSlots : ResetPasswordSerializer_save(s)

\* e1 has registered, e2 has also verified the address, e3 is unknown
InitAccount ==
    /\ backend = "locmem"
    /\ cache = <<>>
    /\ news = [i \in NewsIds |-> NoRow]
    /\ bookmarks = {}
    /\ cats = [i \in CatIds |-> NoRow]
    /\ subs = [i \in SubIds |-> NoRow]
    /\ txn = NoTxn
    /\ wseq = 0
    /\ ev = NoEvent
    /\ rd = Idle
    /\ lastResp = NoResp
    /\ det = [s \in DetSlots |-> NoInstance]
    /\ edt = NoInstance
    /\ reads = [i \in NewsIds |-> 0]
    /\ crt = [s \in DetSlots |-> NoInstance]
    /\ prt = [t \in {"t1", "t2"} |-> NoToken]
    /\ req = [s \in DetSlots |-> NoRequest]
    /\ users = [e \in Emails |->
                  IF e = "e3" THEN NoUser
                  ELSE [NoUser EXCEPT !.present = TRUE, !.tokens = 1, !.password = "p0",
                                      !.email_verified = (e = "e2")]]

SpecAccount == InitAccount /\ [][NextAccount]_vars

(* C31: resend-verification does not reveal whether an email is registered: *)
(* for a well-formed email the response is the same 200 whether or not a    *)
(* user with that email exists and whether or not the email could be sent.  *)
C31_ResendDoesNotRevealRegistration ==
    [][\A email \in Emails, n \in {1, 2} :
          \A outs \in [1..n -> {"sent", "refused", "raised"}] :
              ResendVerificationView_post(email, TRUE, outs)
                 => lastResp'.status = "success" /\ lastResp'.code = 200]_vars

(* C34: the email send retry loop makes at least one and at most           *)
(* max(1, EMAIL_SEND_RETRY_COUNT) attempts, stops at the first attempt     *)
(* that succeeds and then returns True, returns False when every attempt   *)
(* returns False or raises, and hands no exception of the send function on.*)
C34_RetryLoopBounded ==
    /\ \A n \in Attempts :
          LET attempts == IF n > 1 THEN n ELSE 1
          IN  \A outs \in [1..attempts -> {"sent", "refused", "raised"}] :
                 LET r == attempt_send(outs, 1)
                     hits == {i \in 1..attempts : outs[i] = "sent"}
                 IN  /\ r.sent \in BOOLEAN
                     /\ r.calls \in 1..attempts
                     /\ r.sent <=> hits # {}
                     /\ r.sent => r.calls \in hits /\ \A i \in hits : r.calls <= i
                     /\ ~r.sent => r.calls = attempts
    \* every registration that created the user called the send function
    /\ \A e \in Emails :
          users[e].present => users[e].tokens >= 1

\* a registration whose first send failed and whose second went out
C34_Witness ==
    \E e \in Emails :
       /\ users[e].present
       /\ users[e].tokens = 2
       /\ lastResp.view = "register"
       /\ lastResp.user = e
       /\ lastResp.code = 201

(* C35: a password-reset token changes a password at most once, also when  *)
(* two reset requests with the same token run concurrently.                *)
C35_TokenResetsAtMostOnce ==
    \A t \in DOMAIN prt : prt[t].resets <= 1

(* C36: after any sequence or interleaving of forgot-password requests a   *)
(* user has at most one unused password-reset token.                       *)
C36_AtMostOneUnusedToken ==
    \A e \in Emails :
       Cardinality({t \in DOMAIN prt : prt[t].present /\ prt[t].user = e /\ ~prt[t].used}) <= 1

----------------------------------------------------------------------------
(* The bookmark toggle, request by request: blog/views.py 226-242 *)

\* BookmarkNewsView.post up to line 232: get_object_or_404 and
\* news.bookmarks.filter(id=user.id).exists()
BookmarkNewsView_exists(s, user, id) ==
    /\ req[s].pc = "idle"
    /\ IF news[id].present
       THEN /\ req' = [req EXCEPT ![s] =
                         [pc |-> "checked", user |-> user, on |-> id,
                          arg |-> IF <<user, id>> \in bookmarks THEN "bookmarked"
                                  ELSE "absent"]]
            /\ UNCHANGED lastResp
       ELSE \* Http404 is an Exception: lines 240-242
            /\ lastResp' = error_response("bookmark", user, 400, FALSE)
            /\ UNCHANGED req
    /\ UNCHANGED <<backend, cache, news, bookmarks, cats, subs, txn, wseq, ev, rd,
                   det, edt, reads, crt, users, prt>>

\* lines 233-238: remove() deletes the row if there is one, add() inserts it
\* if there is none
BookmarkNewsView_toggle(s) ==
    /\ req[s].pc = "checked"
    /\ LET b == <<req[s].user, req[s].on>>
       IN  bookmarks' = IF req[s].arg = "bookmarked"
                        THEN bookmarks \ {b}
                        ELSE bookmarks \cup {b}
    /\ lastResp' = success_response("bookmark", req[s].user, NoData, FALSE)
    /\ req' = [req EXCEPT ![s] = NoRequest]
    /\ UNCHANGED <<backend, cache, news, cats, subs, txn, wseq, ev, rd,
                   det, edt, reads, crt, users, prt>>

NextBookmark ==
    \/ \E s \in DetSlots, user \in Users, id \in NewsIds :
          BookmarkNewsView_exists(s, user, id)
    \/ \E s \in DetSlots : BookmarkNewsView_toggle(s)

SpecBookmark == Init /\ [][NextBookmark]_vars

(* C37: one completed bookmark toggle flips the requester's membership in  *)
(* the bookmark set of the News and leaves every other membership as it    *)
(* was, in any interleaving of toggles, so that n toggles of one user on   *)
(* one News leave the membership flipped exactly when n is odd.            *)
C37_ToggleFlipsMembership ==
    [][\A s \in DetSlots :
          (req[s].pc = "checked" /\ req'[s].pc = "idle")
          => LET b == <<req[s].user, req[s].on>>
             IN  /\ (b \in bookmarks') <=> (b \notin bookmarks)
                 /\ bookmarks' \ {b} = bookmarks \ {b}]_vars

----------------------------------------------------------------------------
(* News mutations next to every cached view: the feed and the catalogue    *)

\* CategoryPageView.get; no Advertisement rows exist, so "ads" is empty
CategoryPageView_get(id, user, fg) ==
    CachedRead("category_page", <<"category_page", id>>, user, cats[id].present,
               [NoData EXCEPT !.head = {CategorySerializer(id)}, !.count = 1],
               fg, 400, 400)

NextFeed ==
    \/ \E op \in {"create", "update", "delete"}, id \in NewsIds :
          NewsSave(op, id, "autocommit", FALSE, FALSE)
    \/ DetailLoad("d1", "n1", Anon)
    \/ DetailSave("d1", Anon, FALSE, FALSE)
    \/ LatestNewsView_get(Anon, "None", FALSE)
    \/ CategoryListView_get(Anon, FALSE)
    \/ CategoryDetailView_get("c1", Anon, FALSE)
    \/ CategoryPageView_get("c1", Anon, FALSE)
    \/ SubCategoryDetailView_get("s1", Anon, FALSE)
    \/ SubCategoryPageView_get("s1", "1", "10", Anon, FALSE)
    \/ CacheSetAndRespond(FALSE)

\* the catalogue entries are cached; one News exists
InitFeed ==
    /\ backend \in Backends
    /\ news = [i \in NewsIds |-> IF i = "n1" THEN Row(0, 0, 0, "s1") ELSE NoRow]
    /\ bookmarks = {}
    /\ cats = [i \in CatIds |-> IF i = "c1" THEN Row(0, 0, 0, "-") ELSE NoRow]
    /\ subs = [i \in SubIds |-> IF i = "s1" THEN Row(0, 0, 0, "c1") ELSE NoRow]
    /\ cache = [k \in {CategoriesAllKey, CategoryKey("c1"), <<"category_page", "c1">>,
                        SubCategoryKey("s1")} |->
                  [NoData EXCEPT !.head = IF k = SubCategoryKey("s1")
                                          THEN {SubCategorySerializer("s1")}
                                          ELSE {CategorySerializer("c1")},
                                 !.count = 1]]
    /\ txn = NoTxn
    /\ wseq = 0
    /\ ev = NoEvent
    /\ rd = Idle
    /\ lastResp = NoResp
    /\ det = [s \in DetSlots |-> NoInstance]
    /\ edt = NoInstance
    /\ reads = [i \in NewsIds |-> 0]
    /\ crt = [s \in DetSlots |-> NoInstance]
    /\ users = [e \in Emails |-> NoUser]
    /\ prt = [t \in {"t1", "t2"} |-> NoToken]
    /\ req = [s \in DetSlots |-> NoRequest]

SpecFeed == InitFeed /\ [][NextFeed]_vars

\* the cached `latest` entry for lim is not what the store gives now
StaleLatest(lim) ==
    /\ NewsListKey("latest", lim) \in DOMAIN cache
    /\ cache[NewsListKey("latest", lim)]
          # limited_queryset_and_respond(news, get_latest(news, DefaultLimit), lim,
                                         Anon, bookmarks)

(* C32: staleness of a cached ranking is bounded by its TTL under any      *)
(* interleaving: a payload computed before a News write, also one stored   *)
(* after the write's eviction, is eventually no longer cached.             *)
C32_RankingStalenessBounded ==
    \A lim \in LimitParams : StaleLatest(lim) ~> ~StaleLatest(lim)

\* a reader's pre-write payload was stored after the eviction of the write had
\* emptied the prefix, and a later request was served it
C32_Witness ==
    /\ StaleLatest("None")
    /\ backend = "django_redis"
    /\ ev.kind = "news"
    /\ ~ev.failed
    /\ ~txn.open
    /\ lastResp.view = "latest"
    /\ lastResp.hit

(* C38: a News create, update, delete or view-increment evicts only keys   *)
(* under news: every subcategory_page, subcategory, category,              *)
(* category_page and categories:all entry is left as it was, so a cached   *)
(* subcategory page keeps its pre-mutation news sections.                  *)
C38_NewsWriteEvictsOnlyNews ==
    [][wseq' # wseq
          => \A k \in DOMAIN cache :
                ~Matches(k, NewsPattern) => (k \in DOMAIN cache' /\ cache'[k] = cache[k])]_vars

\* every catalogue entry is cached, a News write has run its receiver, and the
\* subcategory page still holds the news section from before the write
C38_Witness ==
    /\ {CategoriesAllKey, CategoryKey("c1"), <<"category_page", "c1">>,
        SubCategoryKey("s1"), SubCategoryPageKey("s1", "1", "10")} \subseteq DOMAIN cache
    /\ ev.kind = "news"
    /\ ~ev.failed
    /\ cache[SubCategoryPageKey("s1", "1", "10")]
          # SubCategoryPageData("s1", "1", "10", Anon)
====
